---- MODULE Spec2Model ----
(***************************************************************************)
(* A model of har2tree/parser.py: the URL normaliser rebuild_url, the      *)
(* per-entry node builder URLNode.load_har_entry, the single-capture       *)
(* resolver Har2Tree (make_tree, _make_subtree, make_hostname_tree), the   *)
(* HostNode counters and serialiser, and the multi-capture stitcher        *)
(* CrawledTree.                                                            *)
(*                                                                         *)
(* Python strings are modelled as sequences of one-character strings, so   *)
(* that prefix, suffix, substring, split and replace are computed as the   *)
(* code computes them.                                                     *)
(***************************************************************************)
EXTENDS Integers, Sequences, FiniteSets, TLC

\* ------------------------------------------------------------------------
\* Python str operations
\* ------------------------------------------------------------------------

\* Printable ASCII, code points 32..126, in order (the grave accent, which a
\* TLA+ string cannot hold, as the token "U+0060").
Ascii ==
    << " ", "!", "\"", "#", "$", "%", "&", "'", "(", ")", "*", "+", ",", "-", ".", "/",
       "0", "1", "2", "3", "4", "5", "6", "7", "8", "9", ":", ";", "<", "=", ">", "?",
       "@", "A", "B", "C", "D", "E", "F", "G", "H", "I", "J", "K", "L", "M", "N", "O",
       "P", "Q", "R", "S", "T", "U", "V", "W", "X", "Y", "Z", "[", "\\", "]", "^", "_",
       "U+0060", "a", "b", "c", "d", "e", "f", "g", "h", "i", "j", "k", "l", "m", "n", "o",
       "p", "q", "r", "s", "t", "u", "v", "w", "x", "y", "z", "{", "|", "}", "~" >>

IsAscii(c) == \E i \in 1..Len(Ascii) : Ascii[i] = c

\* ord(c) for a printable ASCII character.
Ord(c) == 31 + (CHOOSE i \in 1..Len(Ascii) : Ascii[i] = c)

\* chr(n); a code point outside printable ASCII is kept as an opaque token.
Chr(n) == IF n - 31 \in 1..Len(Ascii) THEN Ascii[n - 31] ELSE "U+FFFD"

UpperLetters == {Ascii[i] : i \in 34..59}

DigitChars == {Ascii[i] : i \in 17..26}

LowerLetters == {Ascii[i] : i \in 66..91}

\* str.lower() on one character.
LowerChar(c) == IF c \in UpperLetters THEN Chr(Ord(c) + 32) ELSE c

\* str.lower()
Lower(s) == [i \in 1..Len(s) |-> LowerChar(s[i])]

\* s.startswith(p)
StartsWith(s, p) == Len(p) <= Len(s) /\ SubSeq(s, 1, Len(p)) = p

\* s.endswith(p)
EndsWith(s, p) == Len(p) <= Len(s) /\ SubSeq(s, Len(s) - Len(p) + 1, Len(s)) = p

OccursAt(s, sub, i) ==
    /\ i >= 1
    /\ i + Len(sub) - 1 <= Len(s)
    /\ SubSeq(s, i, i + Len(sub) - 1) = sub

\* min(I) for a set of positions, or default when it is empty.
MinOr(I, default) == IF I = {} THEN default ELSE CHOOSE i \in I : \A j \in I : i <= j

\* max(I) for a set of positions, or default when it is empty.
MaxOr(I, default) == IF I = {} THEN default ELSE CHOOSE i \in I : \A j \in I : i >= j

\* s.find(sub) + 1: the 1-based position of the first occurrence, 0 when absent.
Find(s, sub) == MinOr({i \in 1..(Len(s) - Len(sub) + 1) : OccursAt(s, sub, i)}, 0)

\* s.find(sub, start) + 1 with a 1-based start.
FindFrom(s, sub, start) ==
    MinOr({i \in start..(Len(s) - Len(sub) + 1) : OccursAt(s, sub, i)}, 0)

\* s.rfind(sub) + 1: the 1-based position of the last occurrence, 0 when absent.
RFind(s, sub) == MaxOr({i \in 1..(Len(s) - Len(sub) + 1) : OccursAt(s, sub, i)}, 0)

\* sub in s
Contains(s, sub) == Find(s, sub) # 0

\* s[i:] with a 1-based i.
From(s, i) == SubSeq(s, i, Len(s))

\* s.split(sep)[0]
SplitHead(s, sep) ==
    LET Cut(i) == IF i = 0 THEN s ELSE SubSeq(s, 1, i - 1)
    IN  Cut(Find(s, sep))

\* s.split(sep, 1)[1] when sep occurs, '' otherwise (the tail of a partition).
SplitTail(s, sep) ==
    LET Cut(i) == IF i = 0 THEN <<>> ELSE From(s, i + Len(sep))
    IN  Cut(Find(s, sep))

RECURSIVE Replace(_, _, _)
\* s.replace(old, new) for a non-empty old.
Replace(s, old, new) ==
    LET Cut(i) == IF i = 0 THEN s
                  ELSE SubSeq(s, 1, i - 1) \o new \o Replace(From(s, i + Len(old)), old, new)
    IN  Cut(Find(s, old))

RECURSIVE Split(_, _)
\* s.split(sep) for a non-empty sep.
Split(s, sep) ==
    LET Cut(i) == IF i = 0 THEN <<s>>
                  ELSE <<SubSeq(s, 1, i - 1)>> \o Split(From(s, i + Len(sep)), sep)
    IN  Cut(Find(s, sep))

RECURSIVE Join(_, _)
\* sep.join(parts)
Join(parts, sep) ==
    IF Len(parts) = 0 THEN <<>>
    ELSE IF Len(parts) = 1 THEN parts[1]
    ELSE parts[1] \o sep \o Join(Tail(parts), sep)

Whitespace == {" ", "\t", "\n", "\r"}

RECURSIVE LStrip(_)
LStrip(s) == IF Len(s) > 0 /\ s[1] \in Whitespace THEN LStrip(Tail(s)) ELSE s

RECURSIVE RStrip(_)
RStrip(s) ==
    IF Len(s) > 0 /\ s[Len(s)] \in Whitespace THEN RStrip(SubSeq(s, 1, Len(s) - 1)) ELSE s

\* s.strip()
Strip(s) == RStrip(LStrip(s))

\* ------------------------------------------------------------------------
\* urllib.parse
\* ------------------------------------------------------------------------

HexDigits == DigitChars \cup {"a", "b", "c", "d", "e", "f", "A", "B", "C", "D", "E", "F"}

HexVal(c) ==
    IF c \in DigitChars THEN Ord(c) - 48
    ELSE IF c \in UpperLetters THEN Ord(c) - 55
    ELSE Ord(c) - 87

RECURSIVE Unquote(_)
\* urllib.parse.unquote: every %XX with two hex digits becomes the character
\* of that code; a % not followed by two hex digits is kept.
Unquote(s) ==
    IF Len(s) = 0 THEN <<>>
    ELSE IF s[1] = "%" /\ Len(s) >= 3 /\ s[2] \in HexDigits /\ s[3] \in HexDigits
         THEN <<Chr(16 * HexVal(s[2]) + HexVal(s[3]))>> \o Unquote(From(s, 4))
         ELSE <<s[1]>> \o Unquote(Tail(s))

\* urllib.parse.unquote_plus: '+' becomes ' ', then unquote.
UnquotePlus(s) == Unquote(Replace(s, <<"+">>, <<" ">>))

SchemeChars == LowerLetters \cup UpperLetters \cup DigitChars \cup {"+", "-", "."}

\* The smallest 1-based position >= start of one of '/', '?', '#', or Len + 1.
NetlocEnd(url, start) ==
    MinOr({i \in start..Len(url) : url[i] \in {"/", "?", "#"}}, Len(url) + 1)

\* urllib.parse._splitparams
SplitParams(url) ==
    LET Cut(i) == IF i = 0 THEN [path |-> url, params |-> <<>>]
                  ELSE [path |-> SubSeq(url, 1, i - 1), params |-> From(url, i + 1)]
        Semicolon(slash) ==
            IF slash # 0 THEN FindFrom(url, <<";">>, slash) ELSE Find(url, <<";">>)
    IN  Cut(Semicolon(RFind(url, <<"/">>)))

\* urllib.parse.urlparse for the schemes that use a netloc and params
\* ('', http, https): the six components.
UrlParse(url) ==
    LET PathParams(rest3) ==
            IF Contains(rest3, <<";">>) THEN SplitParams(rest3)
            ELSE [path |-> rest3, params |-> <<>>]
        Fields(scheme, netloc, sp, query, fragment) ==
            [scheme |-> scheme, netloc |-> netloc, path |-> sp.path,
             params |-> sp.params, query |-> query, fragment |-> fragment]
        Query(scheme, netloc, rest2, fragment) ==
            Fields(scheme, netloc, PathParams(SplitHead(rest2, <<"?">>)),
                   SplitTail(rest2, <<"?">>), fragment)
        Fragment(scheme, netloc, rest1) ==
            Query(scheme, netloc, SplitHead(rest1, <<"#">>), SplitTail(rest1, <<"#">>))
        Netloc(scheme, rest0, hasNet, nend) ==
            Fragment(scheme, IF hasNet THEN SubSeq(rest0, 3, nend - 1) ELSE <<>>,
                     IF hasNet THEN From(rest0, nend) ELSE rest0)
        Rest(scheme, rest0) ==
            Netloc(scheme, rest0, StartsWith(rest0, <<"/", "/">>), NetlocEnd(rest0, 3))
        Scheme(colon, isScheme) ==
            Rest(IF isScheme THEN Lower(SubSeq(url, 1, colon - 1)) ELSE <<>>,
                 IF isScheme THEN From(url, colon + 1) ELSE url)
        Colon(colon) ==
            Scheme(colon, colon > 1 /\ \A k \in 1..(colon - 1) : url[k] \in SchemeChars)
    IN  Colon(Find(url, <<":">>))

\* ParseResult.geturl(): urlunparse of the six components.
GetUrl(p) ==
    LET WithFragment(u3) == IF p.fragment # <<>> THEN u3 \o <<"#">> \o p.fragment ELSE u3
        WithQuery(u2) == WithFragment(IF p.query # <<>> THEN u2 \o <<"?">> \o p.query ELSE u2)
        WithScheme(u1) == WithQuery(IF p.scheme # <<>> THEN p.scheme \o <<":">> \o u1 ELSE u1)
        WithNetloc(u0) ==
            WithScheme(IF p.netloc # <<>> \/ (p.scheme # <<>> /\ ~StartsWith(u0, <<"/", "/">>))
                       THEN <<"/", "/">> \o p.netloc
                            \o (IF u0 # <<>> /\ u0[1] # "/" THEN <<"/">> \o u0 ELSE u0)
                       ELSE u0)
    IN  WithNetloc(IF p.params # <<>> THEN p.path \o <<";">> \o p.params ELSE p.path)

\* ParseResult.hostname: the netloc without userinfo and port, lower-cased;
\* None (here the empty string) when there is none.
Hostname(url) ==
    LET HostInfo(netloc, at) == IF at = 0 THEN netloc ELSE From(netloc, at + 1)
        Netloc(netloc) == HostInfo(netloc, RFind(netloc, <<"@">>))
    IN  Lower(SplitHead(Netloc(UrlParse(url).netloc), <<":">>))

RECURSIVE NormParts(_, _)
\* The lexical walk of pathlib's resolve() over the components of an absolute
\* path: '' and '.' are dropped, '..' drops the component before it.
NormParts(parts, acc) ==
    IF Len(parts) = 0 THEN acc
    ELSE LET p == parts[1]
         IN  IF p = <<>> \/ p = <<".">> THEN NormParts(Tail(parts), acc)
             ELSE IF p = <<".", ".">>
                  THEN NormParts(Tail(parts),
                                 IF Len(acc) = 0 THEN acc ELSE SubSeq(acc, 1, Len(acc) - 1))
                  ELSE NormParts(Tail(parts), Append(acc, p))

\* str(Path(path).resolve()) for an absolute path none of whose components is
\* a symbolic link on the host: the trailing '/' is lost, '/' stays '/'.
ResolvePath(path) == <<"/">> \o Join(NormParts(Split(path, <<"/">>), <<>>), <<"/">>)

\* ------------------------------------------------------------------------
\* rebuild_url
\* ------------------------------------------------------------------------

\* x in known_urls, for a list of strings.
InList(x, list) == \E i \in 1..Len(list) : list[i] = x

\* re.match('^https?://', partial)
IsHttpUrl(partial) == StartsWith(partial, <<"h", "t", "t", "p", ":", "/", "/">>) \/ StartsWith(partial, <<"h", "t", "t", "p", "s", ":", "/", "/">>)

\* The first stage of rebuild_url: the if/elif chain on the stripped and
\* unquoted, non-empty partial.
RebuildFirst(base_url, partial) ==
    LET First(splitted_base_url) ==
            IF IsHttpUrl(partial) THEN partial
            ELSE IF StartsWith(partial, <<"/", "/">>)
                 THEN splitted_base_url.scheme \o <<":">> \o partial
            ELSE IF partial[1] = "/" \/ partial[1] \notin {";", "?", "#"}
                 THEN IF partial[1] # "/"
                      THEN IF base_url[Len(base_url)] = "/"
                           THEN base_url \o partial
                           ELSE SubSeq(base_url, 1, RFind(base_url, <<"/">>)) \o partial
                      ELSE splitted_base_url.scheme \o <<":", "/", "/">> \o splitted_base_url.netloc
                           \o partial
            ELSE IF partial[1] = ";" THEN SplitHead(base_url, <<";">>) \o partial
            ELSE IF partial[1] = "?" THEN SplitHead(base_url, <<"?">>) \o partial
            ELSE SplitHead(base_url, <<"#">>) \o partial
    IN  First(UrlParse(base_url))

\* The default-port step of rebuild_url.
StripDefaultPort(final_url) ==
    LET Http(u1) == IF StartsWith(u1, <<"h", "t", "t", "p", ":", "/", "/">>) /\ Contains(u1, <<":", "8", "0">>)
                    THEN Replace(u1, <<":", "8", "0">>, <<>>) ELSE u1
    IN  Http(IF StartsWith(final_url, <<"h", "t", "t", "p", "s", ":", "/", "/">>) /\ Contains(final_url, <<":", "4", "4", "3">>)
             THEN Replace(final_url, <<":", "4", "4", "3">>, <<>>) ELSE final_url)

\* The path-resolution step without the slash re-added to the resolved path.
ResolveUrlPathDroppingSlash(final_url, known_urls) ==
    LET Parsed(parsed) ==
            IF parsed.path # <<>>
            THEN GetUrl([parsed EXCEPT !.path = ResolvePath(parsed.path)])
            ELSE GetUrl([parsed EXCEPT !.path = <<"/">>])
    IN  Parsed(UrlParse(final_url))

\* The path-resolution step of rebuild_url.
ResolveUrlPath(final_url, known_urls) ==
    LET WithSlash(parsed, resolved_path, u1) ==
            IF ~InList(u1, known_urls) /\ resolved_path[Len(resolved_path)] # "/"
            THEN GetUrl([parsed EXCEPT !.path = resolved_path \o <<"/">>])
            ELSE u1
        Resolved(parsed, resolved_path) ==
            WithSlash(parsed, resolved_path, GetUrl([parsed EXCEPT !.path = resolved_path]))
        Parsed(parsed) ==
            IF parsed.path # <<>> THEN Resolved(parsed, ResolvePath(parsed.path))
            ELSE GetUrl([parsed EXCEPT !.path = <<"/">>])
    IN  Parsed(UrlParse(final_url))

\* The fragment step of rebuild_url.
AppendBaseFragment(base_url, final_url) ==
    GetUrl([UrlParse(final_url) EXCEPT !.fragment = UrlParse(base_url).fragment])

\* rebuild_url(base_url, partial, known_urls), for an absolute http(s)
\* base_url.
rebuild_url(base_url, partial0, known_urls) ==
    LET Fragment(f2) ==
            IF ~InList(f2, known_urls) /\ UrlParse(base_url).fragment # <<>>
            THEN AppendBaseFragment(base_url, f2)
            ELSE f2
        Path(f1) ==
            Fragment(IF ~InList(f1, known_urls) THEN ResolveUrlPath(f1, known_urls) ELSE f1)
        Port(f0) == Path(IF ~InList(f0, known_urls) THEN StripDefaultPort(f0) ELSE f0)
        Rebuild(partial) ==
            IF partial = <<>> THEN <<>> ELSE Port(RebuildFirst(base_url, partial))
    IN  Rebuild(UnquotePlus(Strip(partial0)))

\* ------------------------------------------------------------------------
\* URLNode.load_har_entry
\* ------------------------------------------------------------------------

RECURSIVE SortedSeq(_)
\* The elements of a finite set of integers, ascending.
SortedSeq(S) ==
    IF S = {} THEN <<>>
    ELSE LET Rest(m) == <<m>> \o SortedSeq(S \ {m})
         IN  Rest(CHOOSE x \in S : \A y \in S : x <= y)

\* [F(i) for i in 1..n if P(i)]: a Python list built by a loop over a list.
Collect(n, P(_), F(_)) ==
    LET Build(s) == [k \in 1..Len(s) |-> F(s[k])]
    IN  Build(SortedSeq({i \in 1..n : P(i)}))

\* The keys of a dict filled by a loop over list: each value once, in the
\* order of its first occurrence.
DictKeys(list) ==
    Collect(Len(list), LAMBDA i : \A j \in 1..(i - 1) : list[j] # list[i],
            LAMBDA i : list[i])

\* list[i] = v
Update(list, i, v) == [k \in 1..Len(list) |-> IF k = i THEN v ELSE list[k]]

\* The elements of a list, as a set.
Range(list) == {list[i] : i \in 1..Len(list)}

\* Python's None; no string, list or uuid of the model equals it.
None == <<"None">>

\* A HAR entry is a record
\*   [url, startedDateTime, pageref, headers, requestCookies, responseCookies,
\*    text, mimeType, external, initiator, redirectURL]
\* where headers is a list of [name, value], the cookies are lists of
\* [name, value, domain] (domain None when the key is missing), text tells
\* whether response.content.text is non-empty, external is what
\* find_external_ressources returns for the body (a list of [tag, url] in
\* the order of its dictionary), and initiator is NoInitiator when the entry
\* has no _initiator key and [type, url, stack] otherwise, stack being the
\* list of the first call-frame URLs along the parent chain (None for a stack
\* level without call frames).

NoInitiator == [type |-> "absent", url |-> <<>>, stack |-> <<>>]

MimeFlags ==
    {"js", "image", "css", "json", "html", "font", "octet_stream", "text",
     "video", "livestream", "unset_mimetype", "unknown_mimetype"}

\* load_har_entry, the MIME chain: the one flag set for a mimeType.
MimeCategory(mimeType) ==
    IF Contains(mimeType, <<"j", "a", "v", "a", "s", "c", "r", "i", "p", "t">>) \/ Contains(mimeType, <<"e", "c", "m", "a", "s", "c", "r", "i", "p", "t">>) THEN "js"
    ELSE IF StartsWith(mimeType, <<"i", "m", "a", "g", "e">>) THEN "image"
    ELSE IF StartsWith(mimeType, <<"t", "e", "x", "t", "/", "c", "s", "s">>) THEN "css"
    ELSE IF Contains(mimeType, <<"j", "s", "o", "n">>) THEN "json"
    ELSE IF StartsWith(mimeType, <<"t", "e", "x", "t", "/", "h", "t", "m", "l">>) THEN "html"
    ELSE IF Contains(mimeType, <<"f", "o", "n", "t">>) THEN "font"
    ELSE IF Contains(mimeType, <<"o", "c", "t", "e", "t", "-", "s", "t", "r", "e", "a", "m">>) THEN "octet_stream"
    ELSE IF Contains(mimeType, <<"t", "e", "x", "t", "/", "p", "l", "a", "i", "n">>) \/ Contains(mimeType, <<"x", "m", "l">>) THEN "text"
    ELSE IF Contains(mimeType, <<"v", "i", "d", "e", "o">>) THEN "video"
    ELSE IF Contains(Lower(mimeType), <<"m", "p", "e", "g", "u", "r", "l">>) THEN "livestream"
    ELSE IF mimeType = <<>> THEN "unset_mimetype"
    ELSE "unknown_mimetype"

RECURSIVE LastHeader(_, _)
\* The value the loop over request.headers leaves in a feature: that of the
\* last header whose lower-cased name is lname, None without one.
LastHeader(headers, lname) ==
    IF Len(headers) = 0 THEN None
    ELSE LET h == headers[Len(headers)]
         IN  IF Lower(h.name) = lname THEN h.value
             ELSE LastHeader(SubSeq(headers, 1, Len(headers) - 1), lname)

\* The effective domain of a response cookie.
CookieDomain(cookie, hostname) ==
    IF cookie.domain # None /\ cookie.domain # <<>>
    THEN IF cookie.domain[1] = "." THEN Tail(cookie.domain) ELSE cookie.domain
    ELSE hostname

\* f'{cookie["name"]}={cookie["value"]}'
CookieKey(cookie) == cookie.name \o <<"=">> \o cookie.value

\* IsThirdParty looking for the hostname at the end of the cookie domain.
IsThirdPartyReversed(cookie, hostname) ==
    ~EndsWith(CookieDomain(cookie, hostname), hostname)

\* The is_3rd_party element load_har_entry computes for a response cookie.
IsThirdParty(cookie, hostname) == ~EndsWith(hostname, CookieDomain(cookie, hostname))

\* cookies_received: one (cookie_domain, name=value, is_3rd_party) per
\* response cookie.
CookiesReceived(cookies, hostname) ==
    [i \in 1..Len(cookies) |->
        <<CookieDomain(cookies[i], hostname), CookieKey(cookies[i]),
          IsThirdParty(cookies[i], hostname)>>]

\* set_third_party_cookies: False, then True at the first third-party cookie.
SetThirdPartyCookies(cookies, hostname) ==
    \E i \in 1..Len(cookies) : IsThirdParty(cookies[i], hostname)

RECURSIVE FindInitiatorInStack(_)
\* URLNode._find_initiator_in_stack over the parent chain of a stack.
FindInitiatorInStack(stack) ==
    IF Len(stack) = 0 THEN None
    ELSE IF stack[1] # None THEN UnquotePlus(stack[1])
    ELSE FindInitiatorInStack(Tail(stack))

InitiatorTypes == {"other", "parser", "script", "redirect"}

\* load_har_entry on the _initiator key: whether it raises.
InitiatorRaises(initiator) ==
    /\ initiator.type # "absent"
    /\ initiator.type # "other"
    /\ ~(initiator.type = "parser" /\ initiator.url # <<>>)
    /\ initiator.type # "script"

\* load_har_entry on the _initiator key: the initiator_url feature, None when
\* it is not added.
InitiatorUrl(initiator) ==
    IF initiator.type = "absent" THEN None
    ELSE IF initiator.type = "other" THEN None
    ELSE IF initiator.type = "parser" /\ initiator.url # <<>>
         THEN UnquotePlus(initiator.url)
    ELSE IF initiator.type = "script"
         THEN LET OrNone(url) == IF url = <<>> THEN None ELSE url
              IN  OrNone(FindInitiatorInStack(initiator.stack))
    ELSE None

\* RedirectFeatures looking up the redirectURL as the entry gives it.
RedirectFeaturesOfRawUrl(name, redirectURL, all_requests) ==
    IF redirectURL = <<>> THEN [features |-> {}, redirect_url |-> None]
    ELSE IF InList(redirectURL, all_requests)
         THEN [features |-> {"redirect", "redirect_url"}, redirect_url |-> redirectURL]
         ELSE [features |-> {"redirect", "redirect_to_nothing", "redirect_url"},
               redirect_url |-> redirectURL]

\* load_har_entry on response.redirectURL: the features redirect,
\* redirect_to_nothing and redirect_url.
RedirectFeatures(name, redirectURL, all_requests) ==
    IF redirectURL = <<>> THEN [features |-> {}, redirect_url |-> None]
    ELSE LET Features(redirect_url) ==
                 IF InList(redirect_url, all_requests)
                 THEN [features |-> {"redirect", "redirect_url"},
                       redirect_url |-> redirect_url]
                 ELSE [features |-> {"redirect", "redirect_to_nothing", "redirect_url"},
                       redirect_url |-> redirectURL]
         IN  Features(rebuild_url(name, redirectURL, all_requests))

\* URLNode(name=...) followed by load_har_entry(har_entry, all_requests): the
\* node as a record. features holds the names of the features add_feature
\* has added (hasattr(node, f) is f \in node.features); a string feature that
\* is not added is None, a list feature that is not added is empty. up and
\* children are the tree links of the ete3 node (up = 0: no parent).
LoadHarEntry(har_entry, all_requests, uuid) ==
    LET Node(name, hostname, redir, r, keys) ==
            [uuid |-> uuid,
             name |-> name,
             alternative_url_for_referer |-> SplitHead(name, <<"#">>),
             start_time |-> har_entry.startedDateTime,
             pageref |-> har_entry.pageref,
             hostname |-> hostname,
             referer |-> IF r = None THEN None ELSE UnquotePlus(r),
             response_cookie |-> har_entry.responseCookies,
             set_third_party_cookies |->
                 SetThirdPartyCookies(har_entry.responseCookies, hostname),
             cookies_received |-> CookiesReceived(har_entry.responseCookies, hostname),
             request_cookie |-> har_entry.requestCookies,
             \* cookies_sent: the dict as the list of its [key, setters] items
             cookies_sent |-> [i \in 1..Len(keys) |-> [key |-> keys[i], setters |-> <<>>]],
             external_ressources |-> IF har_entry.text THEN har_entry.external ELSE <<>>,
             features |->
                 (IF Len(har_entry.responseCookies) # 0
                  THEN {"set_third_party_cookies", "cookies_received"} ELSE {})
                 \cup (IF Len(har_entry.requestCookies) # 0 THEN {"cookies_sent"} ELSE {})
                 \cup (IF har_entry.text THEN {"external_ressources"}
                       ELSE {"empty_response"})
                 \cup {MimeCategory(har_entry.mimeType)}
                 \cup redir.features,
             initiator_url |-> InitiatorUrl(har_entry.initiator),
             redirect_url |-> redir.redirect_url,
             up |-> 0,
             children |-> <<>>]
        Named(name) ==
            Node(name, Hostname(name),
                 RedirectFeatures(name, har_entry.redirectURL, all_requests),
                 LastHeader(har_entry.headers, <<"r", "e", "f", "e", "r", "e", "r">>),
                 DictKeys([i \in 1..Len(har_entry.requestCookies) |->
                              CookieKey(har_entry.requestCookies[i])]))
    IN  Named(UnquotePlus(har_entry.url))

\* ------------------------------------------------------------------------
\* HostNode
\* ------------------------------------------------------------------------

HostCounters ==
    {"request_cookie", "response_cookie", "js", "redirect", "redirect_to_nothing",
     "image", "css", "json", "html", "font", "octet_stream", "text", "video",
     "livestream", "unset_mimetype", "unknown_mimetype", "iframe"}

\* HostNode(name=...): the features HostNode.__init__ adds. name is '' (the
\* ete3 default) when none is given.
NewHostNode(name, uuid, up) ==
    [uuid |-> uuid, name |-> name, urls |-> <<>>,
     count |-> [c \in HostCounters |-> 0],
     http_content |-> FALSE, https_content |-> FALSE, mixed_content |-> FALSE,
     up |-> up, children |-> <<>>]

\* CountersOf counting a livestream on its own counter.
CountersOfByName(url) ==
    {c \in {"js", "redirect", "redirect_to_nothing", "image", "css", "json", "html",
            "font", "octet_stream", "text", "iframe", "video", "livestream"} :
        c \in url.features}
    \cup (IF "unknown_mimetype" \in url.features \/ "unset_mimetype" \in url.features
          THEN {"unknown_mimetype"} ELSE {})

\* The counters HostNode.add_url increments for a URL node.
CountersOf(url) ==
    {c \in {"js", "redirect", "redirect_to_nothing", "image", "css", "json", "html",
            "font", "octet_stream", "text", "iframe"} : c \in url.features}
    \cup (IF "video" \in url.features \/ "livestream" \in url.features THEN {"video"} ELSE {})
    \cup (IF "unknown_mimetype" \in url.features \/ "unset_mimetype" \in url.features
          THEN {"unknown_mimetype"} ELSE {})

\* HostNode.add_url(url) on the host node record; id is the URL node.
AddUrl(host, url, id) ==
    [host EXCEPT
        !.name = IF host.name = <<>> THEN url.hostname ELSE @,
        !.urls = Append(@, id),
        !.count = [c \in HostCounters |->
                      IF c = "request_cookie" THEN @[c] + Len(url.request_cookie)
                      ELSE IF c = "response_cookie" THEN @[c] + Len(url.response_cookie)
                      ELSE IF c \in CountersOf(url) THEN @[c] + 1
                      ELSE @[c]],
        !.http_content = @ \/ StartsWith(url.name, <<"h", "t", "t", "p", ":", "/", "/">>),
        !.https_content = @ \/ (~StartsWith(url.name, <<"h", "t", "t", "p", ":", "/", "/">>)
                                /\ StartsWith(url.name, <<"h", "t", "t", "p", "s", ":", "/", "/">>))]

\* HarTreeNode.to_dict as HostNode.to_dict calls it: the features of the node
\* as they are when the document is built (urls and uuid aside).
HostFeatures(host) ==
    [name |-> host.name, count |-> host.count,
     http_content |-> host.http_content, https_content |-> host.https_content,
     mixed_content |-> host.mixed_content]

\* HostNode.to_dict: the emitted document (children aside).
HostToDict(host) ==
    [features |-> HostFeatures(host), urls_count |-> Len(host.urls)]

\* HostNode.to_dict: the node after the call.
HostAfterToDict(host) ==
    IF host.http_content /\ host.https_content
    THEN [host EXCEPT !.mixed_content = TRUE] ELSE host

\* ------------------------------------------------------------------------
\* HarFile and Har2Tree.__init__
\* ------------------------------------------------------------------------

\* A HAR file with its side-cars is a record
\*   [entries, pages, final_redirect, cookies]
\* entries sorted by startedDateTime as HarFile.__init__ leaves them, pages a
\* list of [id, startedDateTime], final_redirect the content of the
\* last_redirect side-car ('' without one), cookies the cookie jar.

\* HarFile.pages_start_times[t]: the position in log.pages of the page of a
\* start time, 0 without one.
PageOfStartTime(har, t) ==
    IF t = har.entries[1].startedDateTime THEN 1
    ELSE MaxOr({i \in 1..Len(har.pages) : har.pages[i].startedDateTime = t}, 0)

\* _load_url_entries: whether the entry is the root entry of its page.
IsPageRoot(har, har_entry) ==
    LET Root(page) == page # 0 /\ har.pages[page].id = har_entry.pageref
    IN  Root(PageOfStartTime(har, har_entry.startedDateTime))

\* UrlUuid drawing the same values for every capture.
UrlUuidOfPosition(k, i) == <<"url", 0, i>>

\* The uuid4 of the i-th URL node and of the j-th host node of capture k:
\* fresh values, different for different nodes.
UrlUuid(k, i) == <<"url", k, i>>

HostUuid(k, j) == <<"host", k, j>>

\* all_url_requests.keys(): the unquoted request URLs, each once.
AllRequests(har) ==
    DictKeys([i \in 1..Len(har.entries) |-> UnquotePlus(har.entries[i].url)])

\* _load_url_entries: the URL nodes, in the order of the entries.
LoadNodes(har, k) ==
    [i \in 1..Len(har.entries) |->
        LoadHarEntry(har.entries[i], AllRequests(har), UrlUuid(k, i))]

\* _load_url_entries: all_redirects.
AllRedirects(nodes) ==
    Collect(Len(nodes), LAMBDA i : nodes[i].redirect_url # None,
            LAMBDA i : nodes[i].redirect_url)

\* _load_url_entries: all_initiator_url, a dict initiator URL -> names.
AllInitiatorUrl(nodes) ==
    [u \in {nodes[i].initiator_url : i \in 1..Len(nodes)} \ {None} |->
        Collect(Len(nodes), LAMBDA i : nodes[i].initiator_url = u,
                LAMBDA i : nodes[i].name)]

\* _load_url_entries: all_referer, a dict referer -> names; a referer to
\* itself is skipped.
AllReferer(nodes) ==
    [r \in {nodes[i].referer : i \in {j \in 1..Len(nodes) :
                                        nodes[j].referer # nodes[j].name}} \ {None} |->
        Collect(Len(nodes),
                LAMBDA i : nodes[i].referer = r /\ nodes[i].referer # nodes[i].name,
                LAMBDA i : nodes[i].name)]

\* _load_url_entries: all_url_requests, a dict name -> nodes.
AllUrlRequests(nodes) ==
    [u \in {nodes[i].name : i \in 1..Len(nodes)} |->
        Collect(Len(nodes), LAMBDA i : nodes[i].name = u, LAMBDA i : i)]

\* _load_url_entries: pages_root, a dict pageref -> uuid of the last entry
\* that is the root entry of that page.
PagesRoot(har, nodes) ==
    LET Last(roots) ==
            [p \in {nodes[i].pageref : i \in roots} |->
                nodes[CHOOSE i \in roots :
                        /\ nodes[i].pageref = p
                        /\ \A j \in roots : nodes[j].pageref = p => j <= i].uuid]
    IN  Last({i \in 1..Len(nodes) : IsPageRoot(har, har.entries[i])})

\* Har2Tree.__init__: the flag the context loop adds for a tag of
\* external_ressources.
TagFlags(tag) ==
    IF tag = "img" THEN {"image"}
    ELSE IF tag = "script" THEN {"js"}
    ELSE IF tag = "video" THEN {"video"}
    ELSE IF tag = "audio" THEN {"audio"}
    ELSE IF tag = "iframe" THEN {"iframe"}
    ELSE IF tag \in {"embed", "source", "object"} THEN {"octet_stream"}
    ELSE IF tag = "link" THEN {"css"}
    ELSE {}

\* ContextFlags adding the flags of every listed URL to every node.
ContextFlagsOfAnyUrl(nodes, url) ==
    UNION {UNION {TagFlags(ext[j].tag) : j \in 1..Len(ext)} :
             ext \in {nodes[i].external_ressources : i \in 1..Len(nodes)}}

\* Har2Tree.__init__, "Add context if urls are found in external_ressources":
\* the flags the loop adds to the nodes named url.
ContextFlags(nodes, url) ==
    UNION {UNION {TagFlags(ext[j].tag) : j \in {j \in 1..Len(ext) : ext[j].url = url}} :
             ext \in {nodes[i].external_ressources : i \in 1..Len(nodes)}}

RECURSIVE Concat(_)
\* The concatenation of a list of lists.
Concat(lists) == IF Len(lists) = 0 THEN <<>> ELSE lists[1] \o Concat(Tail(lists))

\* Har2Tree.__init__: self.cookies_received[key], the (domain, setter node,
\* is_3rd_party) of every received cookie name=value, in the order of the
\* nodes and of their cookies.
ReceivedFor(nodes, key) ==
    Concat([i \in 1..Len(nodes) |->
        LET cr == nodes[i].cookies_received
        IN  Collect(Len(cr), LAMBDA j : cr[j][2] = key,
                    LAMBDA j : [domain |-> cr[j][1], setter |-> i,
                                third_party |-> cr[j][3]])])

\* The cross reference without the test of the domain: every node that
\* received the cookie is recorded.
CookieSettersOfEveryDomain(nodes, n, key) ==
    LET Setters(rc) ==
            [j \in 1..Len(rc) |->
                [hostname |-> nodes[rc[j].setter].hostname,
                 uuid |-> nodes[rc[j].setter].uuid,
                 name |-> nodes[rc[j].setter].name,
                 third_party |-> rc[j].third_party]]
    IN  Setters(ReceivedFor(nodes, key))

\* Har2Tree.__init__, "Cross reference the source of the cookie": the records
\* appended to n.cookies_sent[key].
CookieSetters(nodes, n, key) ==
    LET Setters(rc) ==
            Collect(Len(rc), LAMBDA j : EndsWith(nodes[n].hostname, rc[j].domain),
                    LAMBDA j : [hostname |-> nodes[rc[j].setter].hostname,
                                uuid |-> nodes[rc[j].setter].uuid,
                                name |-> nodes[rc[j].setter].name,
                                third_party |-> rc[j].third_party])
    IN  Setters(ReceivedFor(nodes, key))

\* The keys of the cookies_sent of a node ({} without the feature).
SentKeys(node) == {node.cookies_sent[i].key : i \in 1..Len(node.cookies_sent)}

\* The keys of all the cookies received during the capture.
ReceivedKeys(nodes) ==
    UNION {{nodes[i].cookies_received[j][2] : j \in 1..Len(nodes[i].cookies_received)} :
             i \in 1..Len(nodes)}

\* Har2Tree.__init__: the keys of locally_created, in the order of the jar.
LocallyCreated(har, nodes) ==
    LET Fresh(jar) ==
            Collect(Len(jar),
                    LAMBDA i : jar[i] \notin ReceivedKeys(nodes)
                               /\ jar[i] \notin SentKeys(nodes[1]),
                    LAMBDA i : jar[i])
    IN  Fresh(DictKeys([i \in 1..Len(har.cookies) |-> CookieKey(har.cookies[i])]))

\* Har2Tree.__init__: the keys of locally_created_not_sent.
LocallyCreatedNotSent(har, nodes) ==
    LET NotSent(lc) ==
            Collect(Len(lc),
                    LAMBDA i : \A n \in 1..Len(nodes) : lc[i] \notin SentKeys(nodes[n]),
                    LAMBDA i : lc[i])
    IN  NotSent(LocallyCreated(har, nodes))

\* Har2Tree.__init__ after _load_url_entries: the nodes with their
\* cookies_sent cross-referenced and their context flags added.
FinishNodes(nodes) ==
    [n \in 1..Len(nodes) |->
        [nodes[n] EXCEPT
            !.cookies_sent =
                [j \in 1..Len(@) |->
                    [key |-> @[j].key, setters |-> CookieSetters(nodes, n, @[j].key)]],
            !.features = @ \cup ContextFlags(nodes, nodes[n].name)]]

\* Har2Tree(har_path): the object as a record, for the k-th capture. URL
\* nodes are named by their position in nodes, host nodes by their position
\* in hosts; hostname_tree is hosts[1] and url_tree is nodes[1]. raised tells
\* that the constructor (later: make_tree) raised, overrun that make_tree
\* does not return. via records, for each
\* attached node, the pass that attached it, origin the capture and the
\* position a node was built at, and pending the nodes_list a node found
\* when _make_subtree started on it.
NewHar2Tree(har, k) ==
    LET Tree(has, fails, ok, nodes) ==
            [har |-> har,
             capture |-> k,
             has_entries |-> has,
             raised |-> fails,
             depth |-> 0,
             overrun |-> FALSE,
             hosts |-> <<NewHostNode(<<>>, HostUuid(k, 1), 0)>>,
             nodes |-> FinishNodes(nodes),
             nodes_list |-> IF ok THEN [i \in 1..(Len(nodes) - 1) |-> i + 1] ELSE <<>>,
             all_url_requests |-> AllUrlRequests(nodes),
             pages_root |-> IF ok THEN PagesRoot(har, nodes) ELSE <<>>,
             all_redirects |-> AllRedirects(nodes),
             all_referer |-> AllReferer(nodes),
             all_initiator_url |-> AllInitiatorUrl(nodes),
             locally_created |-> IF ok THEN LocallyCreated(har, nodes) ELSE <<>>,
             locally_created_not_sent |->
                 IF ok THEN LocallyCreatedNotSent(har, nodes) ELSE <<>>,
             url_tree |-> IF ok THEN 1 ELSE 0,
             via |-> [i \in 1..Len(nodes) |-> "none"],
             origin |-> [i \in 1..Len(nodes) |-> <<k, i>>],
             pending |-> [i \in 1..Len(nodes) |-> {}]]
        Load(has, fails, ok) ==
            Tree(has, fails, ok, IF ok THEN LoadNodes(har, k) ELSE <<>>)
        Checked(has, fails) == Load(has, fails, has /\ ~fails)
    IN  Checked(Len(har.entries) > 0,
                \E i \in 1..Len(har.entries) : InitiatorRaises(har.entries[i].initiator))

\* ------------------------------------------------------------------------
\* Har2Tree._make_subtree and Har2Tree.make_tree
\* ------------------------------------------------------------------------

\* list.remove(x): the list without the first occurrence of x.
RemoveFirst(list, x) ==
    LET Cut(i) == SubSeq(list, 1, i - 1) \o SubSeq(list, i + 1, Len(list))
    IN  Cut(CHOOSE i \in 1..Len(list) : list[i] = x /\ \A j \in 1..(i - 1) : list[j] # x)

\* [x for x in list if x not in without]
Without(list, without) ==
    Collect(Len(list), LAMBDA i : ~InList(list[i], without), LAMBDA i : list[i])

\* root.add_child(unode) for every unode of nodes_to_attach.
AddChildren(t, root, nodes_to_attach, pass) ==
    [t EXCEPT
        !.nodes = [i \in 1..Len(@) |->
                      [@[i] EXCEPT
                          !.children = IF i = root THEN @ \o nodes_to_attach ELSE @,
                          !.up = IF InList(i, nodes_to_attach) THEN root ELSE @]],
        !.via = [i \in 1..Len(@) |-> IF InList(i, nodes_to_attach) THEN pass ELSE @[i]]]

\* _make_subtree: the nodes of all_url_requests[url] that are in nodes_list
\* and satisfy Keep.
Matching(t, url, Keep(_)) ==
    LET cand == t.all_url_requests[url]
    IN  Collect(Len(cand), LAMBDA i : InList(cand[i], t.nodes_list) /\ Keep(cand[i]),
                LAMBDA i : cand[i])

\* Take removing only the first of matching_urls from nodes_list.
TakeFirstOnly(t, matching_urls) ==
    [t EXCEPT !.nodes_list =
        Without(@, IF Len(matching_urls) = 0 THEN <<>> ELSE <<matching_urls[1]>>)]

\* Take leaving nodes_list as it is.
TakeNothing(t, matching_urls) == t

\* self.nodes_list = [node for node in self.nodes_list if node not in matching_urls]
Take(t, matching_urls) == [t EXCEPT !.nodes_list = Without(@, matching_urls)]

RECURSIVE MakeSubtree(_, _, _, _)
RECURSIVE ProcessUnodes(_, _)
RECURSIVE InitiatorPass(_, _, _)
RECURSIVE RefererPass(_, _, _, _)
RECURSIVE ExternalPass(_, _, _)

\* _make_subtree, the end of every pass: matching_urls leave nodes_list and
\* are attached below unode.
Attach(t, unode, matching_urls, pass) ==
    MakeSubtree(Take(t, matching_urls), unode, matching_urls, pass)

\* _make_subtree, the body of "for unode in unodes" for a node with a
\* resolved redirect.
FollowRedirect(t, unode) ==
    LET Popped(redirect_url, t1) ==
            Attach(t1, unode, Matching(t1, redirect_url, LAMBDA n : TRUE), "redirect")
        Redirect(redirect_url) ==
            IF ~InList(redirect_url, t.all_redirects) THEN t
            ELSE Popped(redirect_url,
                        [t EXCEPT !.all_redirects = RemoveFirst(@, redirect_url)])
    IN  Redirect(t.nodes[unode].redirect_url)

RECURSIVE InitiatorPassByReferer(_, _, _)
\* InitiatorPass selecting the candidates on their referer.
InitiatorPassByReferer(t, unode, us) ==
    IF Len(us) = 0 THEN t
    ELSE InitiatorPassByReferer(
             Attach(t, unode,
                    Matching(t, us[1], LAMBDA n : t.nodes[n].referer = t.nodes[unode].name),
                    "initiator"),
             unode, Tail(us))

\* _make_subtree, "for u in self.all_initiator_url[unode.name]".
InitiatorPass(t, unode, us) ==
    IF Len(us) = 0 THEN t
    ELSE InitiatorPass(
             Attach(t, unode,
                    Matching(t, us[1],
                             LAMBDA n : t.nodes[n].initiator_url = t.nodes[unode].name),
                    "initiator"),
             unode, Tail(us))

\* _make_subtree, "for u in self.all_referer[key]", key being unode.name or
\* unode.alternative_url_for_referer.
RefererPass(t, unode, key, us) ==
    IF Len(us) = 0 THEN t
    ELSE RefererPass(
             Attach(t, unode, Matching(t, us[1], LAMBDA n : t.nodes[n].referer = key),
                    "referer"),
             unode, key, Tail(us))

\* _make_subtree, the loops over unode.external_ressources.
ExternalPass(t, unode, links) ==
    IF Len(links) = 0 THEN t
    ELSE IF links[1].url \notin DOMAIN t.all_url_requests
         THEN ExternalPass(t, unode, Tail(links))
    ELSE ExternalPass(
             Attach(t, unode, Matching(t, links[1].url, LAMBDA n : TRUE), "external"),
             unode, Tail(links))

\* dict.get(key) of a dict of lists: the list, [] without the key.
Get(dict, key) == IF key \in DOMAIN dict THEN dict[key] ELSE <<>>

\* _make_subtree, the body of "for unode in unodes" for a node without a
\* resolved redirect: the initiator, referer, fragment-stripped referer and
\* external-resources passes. Nothing removes a name from a list of
\* all_initiator_url or all_referer, so the two dicts stay as loaded.
AttachPasses(t, unode) ==
    LET External(n, t3) ==
            IF "external_ressources" \notin n.features THEN t3
            ELSE ExternalPass(t3, unode, n.external_ressources)
        Passes(n) ==
            External(n,
                RefererPass(
                    RefererPass(InitiatorPass(t, unode, Get(t.all_initiator_url, n.name)),
                                unode, n.name, Get(t.all_referer, n.name)),
                    unode, n.alternative_url_for_referer,
                    Get(t.all_referer, n.alternative_url_for_referer)))
    IN  Passes(t.nodes[unode])

\* ProcessUnode running the four other passes after the redirect pass.
ProcessUnodeWithAllPasses(t, unode) ==
    LET Process(t0) ==
            IF "redirect" \in t.nodes[unode].features
               /\ "redirect_to_nothing" \notin t.nodes[unode].features
            THEN AttachPasses(FollowRedirect(t0, unode), unode)
            ELSE AttachPasses(t0, unode)
    IN  Process([t EXCEPT !.pending = Update(@, unode, Range(t.nodes_list))])

\* _make_subtree, the body of "for unode in unodes".
ProcessUnode(t, unode) ==
    LET Process(t0) ==
            IF "redirect" \in t.nodes[unode].features
               /\ "redirect_to_nothing" \notin t.nodes[unode].features
            THEN FollowRedirect(t0, unode)
            ELSE AttachPasses(t0, unode)
    IN  Process([t EXCEPT !.pending = Update(@, unode, Range(t.nodes_list))])

ProcessUnodes(t, unodes) ==
    IF Len(unodes) = 0 THEN t
    ELSE ProcessUnodes(ProcessUnode(t, unodes[1]), Tail(unodes))

\* _make_subtree(root, nodes_to_attach); pass names the pass that collected
\* nodes_to_attach. depth is the number of the calls of _make_subtree that
\* have not returned; a call nested deeper than the capture has entries is
\* a recursion that does not end, which overrun records instead of following
\* it.
MakeSubtree(t, root, nodes_to_attach, pass) ==
    IF t.overrun \/ t.depth > Len(t.nodes) THEN [t EXCEPT !.overrun = TRUE]
    ELSE [ProcessUnodes(AddChildren([t EXCEPT !.depth = @ + 1],
                                    root, nodes_to_attach, pass),
                        nodes_to_attach)
             EXCEPT !.depth = @ - 1]

RECURSIVE LevelOrder(_, _)
\* TreeNode.traverse() from the nodes of queue: level order.
LevelOrder(nodes, queue) ==
    IF Len(queue) = 0 THEN <<>>
    ELSE <<queue[1]>> \o LevelOrder(nodes, Tail(queue) \o nodes[queue[1]].children)

\* self.url_tree.search_nodes(uuid=uuid)
SearchUuid(t, uuid) ==
    LET Search(all) ==
            Collect(Len(all), LAMBDA i : t.nodes[all[i]].uuid = uuid, LAMBDA i : all[i])
    IN  Search(LevelOrder(t.nodes, <<t.url_tree>>))

\* make_tree, the search of the page before pageref in log.pages.
PageBefore(pages, pageref) ==
    LET Before(i) == IF i = 0 THEN pages[Len(pages)] ELSE pages[i - 1]
    IN  Before(MinOr({i \in 2..Len(pages) : pages[i].id = pageref}, 0))

RECURSIVE DrainNodesList(_)
\* make_tree, "while self.nodes_list": a missing key of pages_root and a page
\* root that search_nodes does not find raise (KeyError, IndexError).
DrainNodesList(t) ==
    IF Len(t.nodes_list) = 0 \/ t.overrun THEN t
    ELSE LET Found(node, t1, found) ==
                 IF Len(found) = 0 THEN [t1 EXCEPT !.raised = TRUE]
                 ELSE DrainNodesList(MakeSubtree(t1, found[1], <<node>>, "page"))
             Page(node, t1, page) ==
                 IF page \notin DOMAIN t.pages_root THEN [t1 EXCEPT !.raised = TRUE]
                 ELSE Found(node, t1, SearchUuid(t1, t.pages_root[page]))
             Pop(node, t1, ref) ==
                 IF ref \notin DOMAIN t.pages_root THEN [t1 EXCEPT !.raised = TRUE]
                 ELSE Page(node, t1,
                           IF t.pages_root[ref] # t.nodes[node].uuid THEN ref
                           ELSE PageBefore(t.har.pages, ref).id)
         IN  Pop(t.nodes_list[1], [t EXCEPT !.nodes_list = Tail(@)],
                 t.nodes[t.nodes_list[1]].pageref)

\* ------------------------------------------------------------------------
\* Har2Tree.make_hostname_tree
\* ------------------------------------------------------------------------

\* AddHostChild adding the new host node to the root of the hostname tree.
AddHostChildToRoot(t, root_node_hostname, hostname) ==
    LET new == Len(t.hosts) + 1
    IN  [t EXCEPT
            !.hosts = Append(Update(@, 1, [@[1] EXCEPT !.children = Append(@, new)]),
                             NewHostNode(hostname, HostUuid(t.capture, new), 1))]

\* root_node_hostname.add_child(HostNode(name=hostname)): the new host node is
\* the last of hosts.
AddHostChild(t, root_node_hostname, hostname) ==
    LET new == Len(t.hosts) + 1
    IN  [t EXCEPT
            !.hosts = Append(Update(@, root_node_hostname,
                                    [@[root_node_hostname] EXCEPT
                                        !.children = Append(@, new)]),
                             NewHostNode(hostname, HostUuid(t.capture, new),
                                         root_node_hostname))]

\* sub_roots[child_node_hostname].append(child_node_url) on the dict as the
\* list of its [host, urls] items.
AppendSubRoot(sub_roots, host, url) ==
    IF \E i \in 1..Len(sub_roots) : sub_roots[i].host = host
    THEN [i \in 1..Len(sub_roots) |->
             IF sub_roots[i].host = host
             THEN [sub_roots[i] EXCEPT !.urls = Append(@, url)] ELSE sub_roots[i]]
    ELSE Append(sub_roots, [host |-> host, urls |-> <<url>>])

RECURSIVE GroupChildren(_, _, _)
\* make_hostname_tree, "for child_node_url in root_node_url.get_children()":
\* acc holds the tree, children_hostnames (a list of [hostname, host]) and
\* sub_roots.
GroupChildren(acc, root_node_hostname, children) ==
    IF Len(children) = 0 THEN acc
    ELSE LET Added(child, url, known, t1, host) ==
                 [t |-> [t1 EXCEPT !.hosts = Update(@, host, AddUrl(@[host], url, child))],
                  children_hostnames |->
                      IF known = {}
                      THEN Append(acc.children_hostnames,
                                  [hostname |-> url.hostname, host |-> host])
                      ELSE acc.children_hostnames,
                  sub_roots |->
                      IF Len(url.children) # 0
                      THEN AppendSubRoot(acc.sub_roots, host, child)
                      ELSE acc.sub_roots]
             Hosted(child, url, known, t1) ==
                 Added(child, url, known, t1,
                       IF known = {} THEN Len(t1.hosts)
                       ELSE acc.children_hostnames[CHOOSE i \in known : TRUE].host)
             Known(child, url, known) ==
                 Hosted(child, url, known,
                        IF known = {}
                        THEN AddHostChild(acc.t, root_node_hostname, url.hostname)
                        ELSE acc.t)
             Child(child, url) ==
                 IF url.hostname = <<>> THEN acc
                 ELSE Known(child, url,
                            {i \in 1..Len(acc.children_hostnames) :
                                acc.children_hostnames[i].hostname = url.hostname})
         IN  GroupChildren(Child(children[1], acc.t.nodes[children[1]]),
                           root_node_hostname, Tail(children))

RECURSIVE MakeHostnameTree(_, _, _)
RECURSIVE RecurseSubRoots(_, _)

\* make_hostname_tree, "for child_node_hostname, child_nodes_url in
\* sub_roots.items()".
RecurseSubRoots(t, sub_roots) ==
    IF Len(sub_roots) = 0 THEN t
    ELSE RecurseSubRoots(MakeHostnameTree(t, sub_roots[1].urls, sub_roots[1].host),
                         Tail(sub_roots))

\* make_hostname_tree(root_nodes_url, root_node_hostname), root_nodes_url a
\* list: children_hostnames and sub_roots are new for every root_node_url.
MakeHostnameTree(t, root_nodes_url, root_node_hostname) ==
    IF Len(root_nodes_url) = 0 THEN t
    ELSE LET Recurse(acc) ==
                 MakeHostnameTree(RecurseSubRoots(acc.t, acc.sub_roots),
                                  Tail(root_nodes_url), root_node_hostname)
         IN  Recurse(GroupChildren([t |-> t, children_hostnames |-> <<>>,
                                    sub_roots |-> <<>>],
                                   root_node_hostname,
                                   t.nodes[root_nodes_url[1]].children))

\* MakeTree without the add_url of the root of the URL tree.
MakeTreeWithoutRootUrl(t) ==
    LET Hosts(t1) == IF t1.raised THEN t1 ELSE MakeHostnameTree(t1, <<t1.url_tree>>, 1)
    IN  Hosts(DrainNodesList(ProcessUnodes(t, <<t.url_tree>>)))

\* Har2Tree.make_tree
MakeTree(t) ==
    LET Hosts(t1) ==
            IF t1.raised \/ t1.overrun THEN t1
            ELSE MakeHostnameTree(
                     [t1 EXCEPT !.hosts = Update(@, 1, AddUrl(@[1], t1.nodes[t1.url_tree],
                                                             t1.url_tree))],
                     <<t1.url_tree>>, 1)
    IN  Hosts(DrainNodesList(ProcessUnodes(t, <<t.url_tree>>)))

\* Har2Tree.to_json: json.dumps calls to_dict on the root of the hostname
\* tree and, through harnode_json_default, on every host node below it. The
\* documents, by host node.
ToJsonDocuments(t) == [h \in 1..Len(t.hosts) |-> HostToDict(t.hosts[h])]

\* Har2Tree.to_json: the tree after the call.
AfterToJson(t) == [t EXCEPT !.hosts = [h \in 1..Len(@) |-> HostAfterToDict(@[h])]]
\* ------------------------------------------------------------------------
\* HarFile: the final redirect and the referrer of the root
\* ------------------------------------------------------------------------

RECURSIVE SearchFinalRedirect(_, _)
\* HarFile._search_final_redirect: the final_redirect it leaves.
SearchFinalRedirect(entries, final_redirect) ==
    LET Found(names, i) ==
            IF i # 0
            THEN IF names[i] = final_redirect THEN final_redirect ELSE names[i]
            ELSE IF Contains(final_redirect, <<"#">>)
            THEN SearchFinalRedirect(entries, SplitHead(final_redirect, <<"#">>))
            ELSE IF Contains(final_redirect, <<"?">>)
            THEN SearchFinalRedirect(entries, SplitHead(final_redirect, <<"?">>))
            ELSE final_redirect
        Search(names) ==
            Found(names,
                  MinOr({i \in 1..Len(names) :
                            \/ names[i] = final_redirect
                            \/ StartsWith(names[i], final_redirect \o <<"?">>)}, 0))
    IN  Search([i \in 1..Len(entries) |-> UnquotePlus(entries[i].url)])

\* HarFile.final_redirect after HarFile.__init__: '' without the side-car.
FinalRedirect(har) ==
    IF har.final_redirect = <<>> THEN <<>>
    ELSE SearchFinalRedirect(har.entries, UnquotePlus(har.final_redirect))

\* HarFile.root_url
RootUrl(har) == har.entries[1].url

\* HarFile.has_initial_redirects
HasInitialRedirects(har) ==
    LET Differs(final_redirect) ==
            final_redirect # <<>> /\ har.entries[1].url # final_redirect
    IN  Differs(FinalRedirect(har))

\* Har2Tree.root_after_redirect
RootAfterRedirect(har) ==
    IF HasInitialRedirects(har) THEN FinalRedirect(har) ELSE None

\* HarFile.root_referrer: the value of the first header of the first entry
\* that is named Referer, None without one.
RootReferrer(har) ==
    LET First(headers, i) == IF i = 0 THEN None ELSE headers[i].value
        Headers(headers) ==
            First(headers,
                  MinOr({i \in 1..Len(headers) : headers[i].name = <<"R", "e", "f", "e", "r", "e", "r">>}, 0))
    IN  Headers(har.entries[1].headers)

\* HarFile.__find_referer: the value of the first header of the entry that
\* is named Referer, None without one.
FindReferer(har_entry) ==
    LET First(headers, i) == IF i = 0 THEN None ELSE headers[i].value
        Headers(headers) ==
            First(headers,
                  MinOr({i \in 1..Len(headers) : headers[i].name = <<"R", "e", "f", "e", "r", "e", "r">>}, 0))
    IN  Headers(har_entry.headers)

\* HarFile.initial_redirects, the test of its loop: the entry e continues the
\* chain after previous_entry, as the target of its redirectURL or, when it
\* has none, by naming its response URL as Referer.
ContinuesChain(previous_entry, e) ==
    LET IsResponseUrl(referer) ==
            /\ referer # None
            /\ referer # <<>>
            /\ referer = previous_entry.responseUrl
    IN  IF previous_entry.redirectURL # <<>>
        THEN rebuild_url(previous_entry.responseUrl, previous_entry.redirectURL,
                         <<e.url>>) = e.url
        ELSE IsResponseUrl(FindReferer(e))

\* The else of the loop without the reset of the list: the final redirect is
\* appended to what the loop had collected.
ChainNotFoundKeepingWalked(final_redirect, walked) ==
    [to_return |-> Append(walked, final_redirect), need_tree_redirects |-> TRUE,
     walked |-> walked]

\* HarFile.initial_redirects, the else of its loop, with the list walked so
\* far: the list is dropped for the final redirect alone (walked: what the
\* loop had appended, kept for the properties).
ChainNotFound(final_redirect, walked) ==
    [to_return |-> <<final_redirect>>, need_tree_redirects |-> TRUE,
     walked |-> walked]

RECURSIVE WalkEntries(_, _, _, _, _)
\* HarFile.initial_redirects, its loop from the entry i on, previous being
\* the position of previous_entry.
WalkEntries(entries, final_redirect, i, previous, to_return) ==
    IF i > Len(entries) THEN ChainNotFound(final_redirect, to_return)
    ELSE IF ContinuesChain(entries[previous], entries[i])
    THEN IF entries[i].url = final_redirect
         THEN [to_return |-> Append(to_return, entries[i].url),
               need_tree_redirects |-> FALSE,
               walked |-> Append(to_return, entries[i].url)]
         ELSE WalkEntries(entries, final_redirect, i + 1, i,
                          Append(to_return, entries[i].url))
    ELSE WalkEntries(entries, final_redirect, i + 1, previous, to_return)

\* HarFile.initial_redirects: what it returns and whether it sets
\* need_tree_redirects.
InitialRedirects(har) ==
    IF HasInitialRedirects(har)
    THEN WalkEntries(har.entries, FinalRedirect(har), 2, 1, <<>>)
    ELSE [to_return |-> <<>>, need_tree_redirects |-> FALSE, walked |-> <<>>]

\* ------------------------------------------------------------------------
\* CrawledTree
\* ------------------------------------------------------------------------

\* load_all_harfiles: the trees of the files that have entries, in the order
\* of the files; the k-th file gives the capture k.
LoadAllHarfiles(files) ==
    LET Built(t) == IF t.has_entries /\ ~t.raised THEN MakeTree(t) ELSE t
        Loaded(built) ==
            [raised |-> \E k \in 1..Len(files) : built[k].raised,
             loaded |-> Collect(Len(files), LAMBDA k : built[k].has_entries,
                                LAMBDA k : built[k])]
    IN  Loaded([k \in 1..Len(files) |-> Built(NewHar2Tree(files[k], k))])

\* find_parents: referers, a dict root referer -> trees of hartrees (by
\* position), as the list of its [referer, trees] items.
FindParents(hartrees) ==
    LET Items(referrers, refs) ==
            [r \in 1..Len(refs) |->
                [referer |-> refs[r],
                 trees |-> Collect(Len(referrers), LAMBDA i : referrers[i] = refs[r],
                                   LAMBDA i : i)]]
        Keys(referrers) ==
            Items(referrers,
                  DictKeys(Collect(Len(referrers),
                                   LAMBDA i : referrers[i] # None /\ referrers[i] # <<>>,
                                   LAMBDA i : referrers[i])))
    IN  Keys([i \in 1..Len(hartrees) |-> RootReferrer(hartrees[i].har)])

\* AttachCopy giving the copies uuids of their own.
AttachCopyWithFreshUuids(root_hartree, sub_tree, parent) ==
    LET base == Len(root_hartree.nodes)
        copy(j) == [sub_tree.nodes[j] EXCEPT
                       !.uuid = <<"copy", @[2], @[3]>>,
                       !.up = IF j = sub_tree.url_tree THEN parent ELSE base + @,
                       !.children = [x \in 1..Len(@) |-> base + @[x]]]
    IN  [root_hartree EXCEPT
            !.nodes = Update(@, parent,
                             [@[parent] EXCEPT
                                 !.children = Append(@, base + sub_tree.url_tree)])
                      \o [j \in 1..Len(sub_tree.nodes) |-> copy(j)],
            !.via = @ \o [j \in 1..Len(sub_tree.nodes) |->
                             IF j = sub_tree.url_tree THEN "join" ELSE sub_tree.via[j]],
            !.origin = @ \o sub_tree.origin,
            !.pending = @ \o [j \in 1..Len(sub_tree.nodes) |-> {}]]

\* copy.deepcopy(sub_tree.url_tree) and parent.add_child(to_attach) on the
\* tree of the root capture: the copies are new nodes after those of the
\* tree, the copy of the node j of the sub-capture at Len(nodes) + j, with
\* the features of their originals, uuid included; origin keeps, for each
\* node, the capture and the node of that capture it was built as.
AttachCopy(root_hartree, sub_tree, parent) ==
    LET base == Len(root_hartree.nodes)
        copy(j) == [sub_tree.nodes[j] EXCEPT
                       !.up = IF j = sub_tree.url_tree THEN parent ELSE base + @,
                       !.children = [x \in 1..Len(@) |-> base + @[x]]]
    IN  [root_hartree EXCEPT
            !.nodes = Update(@, parent,
                             [@[parent] EXCEPT
                                 !.children = Append(@, base + sub_tree.url_tree)])
                      \o [j \in 1..Len(sub_tree.nodes) |-> copy(j)],
            !.via = @ \o [j \in 1..Len(sub_tree.nodes) |->
                             IF j = sub_tree.url_tree THEN "join" ELSE sub_tree.via[j]],
            !.origin = @ \o sub_tree.origin,
            !.pending = @ \o [j \in 1..Len(sub_tree.nodes) |-> {}]]

RECURSIVE JoinTrees(_, _, _)
RECURSIVE JoinSubTrees(_, _, _)

\* join_trees, "for sub_tree in sub_trees".
JoinSubTrees(c, sub_trees, parent) ==
    IF Len(sub_trees) = 0 THEN c
    ELSE LET sub_tree  == c.hartrees[sub_trees[1]]
             to_attach == Len(c.root_hartree.nodes) + sub_tree.url_tree
             c1 == [c EXCEPT !.root_hartree = AttachCopy(@, sub_tree, parent)]
         IN  JoinSubTrees(JoinTrees(c1, sub_trees[1], to_attach), Tail(sub_trees), parent)

\* JoinTrees looking up the referers by the root URL only.
JoinTreesByRootUrl(c, root, parent) ==
    LET Joined(c2) ==
            [c2 EXCEPT !.root_hartree =
                MakeHostnameTree(@, <<c2.root_hartree.url_tree>>, 1)]
        Popped(r) ==
            Joined(JoinSubTrees(
                       [c EXCEPT !.referers =
                           Collect(Len(@), LAMBDA x : x # r, LAMBDA x : c.referers[x])],
                       c.referers[r].trees, parent))
        Lookup(I) == IF I = {} THEN c ELSE Popped(CHOOSE r \in I : TRUE)
        Root(har) ==
            Lookup({r \in 1..Len(c.referers) : c.referers[r].referer = RootUrl(har)})
    IN  Root(IF root = 0 THEN c.root_hartree.har ELSE c.hartrees[root].har)

\* join_trees(root, parent_root): root is the position of the tree in
\* hartrees, 0 for root_hartree; parent is the URL node of the tree of the
\* root capture the copies are attached to.
JoinTrees(c, root, parent) ==
    LET Joined(c2) ==
            [c2 EXCEPT !.root_hartree =
                MakeHostnameTree(@, <<c2.root_hartree.url_tree>>, 1)]
        Popped(r) ==
            Joined(JoinSubTrees(
                       [c EXCEPT !.referers =
                           Collect(Len(@), LAMBDA x : x # r, LAMBDA x : c.referers[x])],
                       c.referers[r].trees, parent))
        Lookup(I) == IF I = {} THEN c ELSE Popped(CHOOSE r \in I : TRUE)
        Key(har, root_after_redirect) ==
            Lookup({r \in 1..Len(c.referers) :
                       c.referers[r].referer =
                           IF root_after_redirect # None THEN root_after_redirect
                           ELSE RootUrl(har)})
        Root(har) == Key(har, RootAfterRedirect(har))
    IN  Root(IF root = 0 THEN c.root_hartree.har ELSE c.hartrees[root].har)

\* NewCrawledTree telling of every failure as of an Exception.
NewCrawledTreeRaisingException(files) ==
    LET Stitch(hartrees, root_hartree) ==
            JoinTrees([raised |-> FALSE, error |-> "", hartrees |-> hartrees,
                       root_hartree |-> root_hartree,
                       referers |-> FindParents(hartrees)],
                      0, root_hartree.url_tree)
        Loaded(all) ==
            IF all.raised \/ Len(all.loaded) = 0
            THEN [raised |-> TRUE, error |-> "Exception",
                  hartrees |-> <<>>, root_hartree |-> None, referers |-> <<>>]
            ELSE Stitch(Tail(all.loaded), all.loaded[1])
    IN  Loaded(LoadAllHarfiles(files))

\* CrawledTree(harfiles): the object as a record. raised tells that the
\* constructor raised, and error what: "Har2TreeError" (no usable HAR file)
\* or "Exception" (what Har2Tree or make_tree raised: Exception, KeyError,
\* IndexError), which the loop of load_all_harfiles lets through before the
\* list of the trees is looked at.
NewCrawledTree(files) ==
    LET Stitch(hartrees, root_hartree) ==
            JoinTrees([raised |-> FALSE, error |-> "", hartrees |-> hartrees,
                       root_hartree |-> root_hartree,
                       referers |-> FindParents(hartrees)],
                      0, root_hartree.url_tree)
        Loaded(all) ==
            IF all.raised \/ Len(all.loaded) = 0
            THEN [raised |-> TRUE,
                  error |-> IF all.raised THEN "Exception" ELSE "Har2TreeError",
                  hartrees |-> <<>>, root_hartree |-> None, referers |-> <<>>]
            ELSE Stitch(Tail(all.loaded), all.loaded[1])
    IN  Loaded(LoadAllHarfiles(files))


RECURSIVE PathFromRoot(_, _)
\* The nodes from the root of the tree down to the node i, as
\* reversed(get_ancestors()) lists those above a child of i; none for i = 0.
PathFromRoot(nodes, i) ==
    IF i = 0 THEN <<>> ELSE Append(PathFromRoot(nodes, nodes[i].up), i)

\* self.root_hartree.url_tree.search_nodes(name=name)
SearchName(t, name) ==
    LET Search(all) ==
            Collect(Len(all), LAMBDA i : t.nodes[all[i]].name = name, LAMBDA i : all[i])
    IN  Search(LevelOrder(t.nodes, <<t.url_tree>>))

\* CrawledTree.redirects: the names of the ancestors of the first node named
\* root_after_redirect, the root first.
Redirects(c) ==
    LET NamesOf(path) == [x \in 1..Len(path) |-> c.root_hartree.nodes[path[x]].name]
        Ancestors(redirect_node) ==
            IF Len(redirect_node) = 0 THEN <<>>
            ELSE NamesOf(PathFromRoot(c.root_hartree.nodes,
                                      c.root_hartree.nodes[redirect_node[1]].up))
        Search(root_after_redirect) ==
            IF root_after_redirect = None \/ root_after_redirect = <<>> THEN <<>>
            ELSE Ancestors(SearchName(c.root_hartree, root_after_redirect))
    IN  Search(RootAfterRedirect(c.root_hartree.har))

\* ------------------------------------------------------------------------
\* The captures of the model
\* ------------------------------------------------------------------------

\* The most entries of a capture.
MaxEntries == 3

\* The most relation attributes (Referer header, _initiator, redirectURL,
\* HTML body with a resource) set over the entries of a capture.
MaxRelations == 2

\* The most to_json calls on a tree.
MaxEmit == 2

UrlA ==
    <<"h", "t", "t", "p", ":", "/", "/", "a", "/">>

UrlB ==
    <<"h", "t", "t", "p", ":", "/", "/", "a", "/", "b">>

UrlF ==
    <<"h", "t", "t", "p", ":", "/", "/", "b", "/", "#", "f">>

UrlFNoFragment ==
    <<"h", "t", "t", "p", ":", "/", "/", "b", "/">>

MimeHtml ==
    <<"t", "e", "x", "t", "/", "h", "t", "m", "l">>

\* An entry without headers, cookies, body, _initiator and redirectURL.
PlainEntry(url, startedDateTime, pageref) ==
    [url |-> url, responseUrl |-> url,
     startedDateTime |-> startedDateTime, pageref |-> pageref,
     headers |-> <<>>, requestCookies |-> <<>>, responseCookies |-> <<>>,
     text |-> FALSE, mimeType |-> <<>>, external |-> <<>>, initiator |-> NoInitiator,
     redirectURL |-> <<>>]

\* The relation attributes an entry can carry: [kind, target]. The first
\* entry carries no Referer and no _initiator.
RelationsOfEntry(i) ==
    (IF i = 1 THEN <<>>
     ELSE <<[kind |-> "referer", target |-> UrlA],
            [kind |-> "referer", target |-> UrlB],
            [kind |-> "referer", target |-> UrlFNoFragment],
            [kind |-> "initiator", target |-> UrlA],
            [kind |-> "initiator", target |-> UrlB]>>)
    \o <<[kind |-> "redirect", target |-> <<"/", "b">>],
          [kind |-> "redirect", target |-> UrlA],
          [kind |-> "external", target |-> UrlB],
          [kind |-> "external", target |-> UrlF]>>

\* All the relation attributes of a capture, as [entry, kind, target], in the
\* order of the entries.
Relations ==
    Concat([i \in 1..MaxEntries |->
               [j \in 1..Len(RelationsOfEntry(i)) |->
                   [entry |-> i, kind |-> RelationsOfEntry(i)[j].kind,
                    target |-> RelationsOfEntry(i)[j].target]]])

\* The entry with a relation attribute set.
WithRelation(entry, rel) ==
    IF rel.kind = "referer"
    THEN [entry EXCEPT !.headers = <<[name |-> <<"R", "e", "f", "e", "r", "e", "r">>, value |-> rel.target]>>]
    ELSE IF rel.kind = "initiator"
    THEN [entry EXCEPT !.initiator = [type |-> "script", url |-> <<>>,
                                      stack |-> <<None, rel.target>>]]
    ELSE IF rel.kind = "redirect"
    THEN [entry EXCEPT !.redirectURL = rel.target]
    ELSE [entry EXCEPT !.text = TRUE, !.mimeType = MimeHtml,
                       !.external = <<[tag |-> "img", url |-> rel.target]>>]

RECURSIVE WithRelations(_, _, _)
\* The entry i with the relation attributes chosen for it.
WithRelations(entry, i, chosen) ==
    IF Len(chosen) = 0 THEN entry
    ELSE WithRelations(IF chosen[1] # 0 /\ Relations[chosen[1]].entry = i
                       THEN WithRelation(entry, Relations[chosen[1]]) ELSE entry,
                       i, Tail(chosen))

\* The choices of at most MaxRelations relation attributes for a capture of n
\* entries: positions in Relations (0: none), increasing, at most one value
\* per entry and kind.
RelationChoices(n) ==
    {chosen \in [1..MaxRelations -> 0..Len(Relations)] :
        /\ \A j \in 1..(MaxRelations - 1) :
              chosen[j + 1] = 0
              \/ (/\ chosen[j] # 0
                  /\ chosen[j] < chosen[j + 1]
                  /\ \/ Relations[chosen[j]].entry # Relations[chosen[j + 1]].entry
                     \/ Relations[chosen[j]].kind # Relations[chosen[j + 1]].kind)
        /\ \A j \in 1..MaxRelations : chosen[j] = 0 \/ Relations[chosen[j]].entry <= n}

\* The page tables and page references of a capture of n entries, entry i
\* starting at time i: one page; or a second page that starts with entry s,
\* the entries from s on referring to it; or a second page that starts at
\* the time of no entry, the last entry referring to it.
PageLayouts(n) ==
    {[pages |-> <<[id |-> "page_1", startedDateTime |-> 1]>>,
      pageref |-> [i \in 1..n |-> "page_1"]]}
    \cup {[pages |-> <<[id |-> "page_1", startedDateTime |-> 1],
                       [id |-> "page_2", startedDateTime |-> s]>>,
           pageref |-> [i \in 1..n |-> IF i >= s \/ i = n THEN "page_2" ELSE "page_1"]] :
            s \in 2..(n + 1)}

\* A capture of the resolver.
TreeCapture(n, urls, chosen, layout) ==
    [entries |-> [i \in 1..n |->
                     WithRelations(PlainEntry(urls[i], i, layout.pageref[i]), i, chosen)],
     pages |-> layout.pages, final_redirect |-> <<>>, cookies |-> <<>>]

\* ------------------------------------------------------------------------
\* The captures of the hostname tree
\* ------------------------------------------------------------------------

UrlS ==
    <<"h", "t", "t", "p", "s", ":", "/", "/", "a", "/", "s">>

MimeVideo ==
    <<"v", "i", "d", "e", "o", "/", "m", "p", "4">>

MimeLivestream ==
    <<"a", "p", "p", "l", "i", "c", "a", "t", "i", "o", "n", "/", "x", "-", "m", "p", "e", "g", "U", "R", "L">>

MimeUnknown ==
    <<"f", "o", "o", "/", "b", "a", "r">>

\* The response.content.mimeType values of the entry i.
MimesOfEntry(i) ==
    IF i = 1 THEN {<<>>, MimeHtml}
    ELSE IF i = 2 THEN {<<>>, MimeHtml, MimeVideo, MimeLivestream, MimeUnknown}
    ELSE {<<>>, MimeVideo, MimeLivestream}

\* What the first entry does with the second: nothing, a redirect to it, or
\* a body that embeds it in an img or an iframe tag.
RootModes(n) == IF n = 1 THEN {"plain"} ELSE {"plain", "redirect", "img", "iframe"}

\* The first entry of a capture of the hostname tree.
HostRootEntry(entry, mode, url2) ==
    IF mode = "redirect" THEN [entry EXCEPT !.redirectURL = url2]
    ELSE IF mode \in {"img", "iframe"}
    THEN [entry EXCEPT !.text = TRUE, !.external = <<[tag |-> mode, url |-> url2]>>]
    ELSE entry

\* A capture of the hostname tree: n entries on one page, urls and mimes by
\* entry, links[i] the earlier entry the Referer of entry i names (0: no
\* Referer header).
HostCapture(n, urls, mimes, links, mode) ==
    [entries |->
        [i \in 1..n |->
            LET plain == [PlainEntry(urls[i], i, "page_1") EXCEPT !.mimeType = mimes[i]]
            IN  IF i = 1 THEN HostRootEntry(plain, mode, IF n > 1 THEN urls[2] ELSE <<>>)
                ELSE IF links[i] = 0 THEN plain
                ELSE [plain EXCEPT !.headers =
                         <<[name |-> <<"R", "e", "f", "e", "r", "e", "r">>, value |-> urls[links[i]]]>>]],
     pages |-> <<[id |-> "page_1", startedDateTime |-> 1]>>,
     final_redirect |-> <<>>, cookies |-> <<>>]

\* ------------------------------------------------------------------------
\* The captures of load_har_entry
\* ------------------------------------------------------------------------

\* The most response cookies of an entry.
MaxCookies == 2

UrlX ==
    <<"h", "t", "t", "p", ":", "/", "/", "a", "/", "x">>

UrlPlus ==
    <<"h", "t", "t", "p", ":", "/", "/", "b", ".", "a", "/", "%", "2", "B">>

UrlPlusUnquoted ==
    <<"h", "t", "t", "p", ":", "/", "/", "b", ".", "a", "/", "+">>

UrlBa ==
    <<"h", "t", "t", "p", ":", "/", "/", "b", "a", "/">>

\* The response.redirectURL values of the first entry ('': no redirect).
RedirectUrls ==
    {<<>>, <<"/", "x">>, <<"x">>, UrlX, <<"h", "t", "t", "p", ":", "/", "/", "a", ":", "8", "0", "/", "x">>, UrlPlus, UrlPlusUnquoted, <<"h", "t", "t", "p", ":", "/", "/", "c", "/">>}

\* The domain values of a response cookie (None: no domain key).
CookieDomains ==
    {None, <<>>, <<".", "a">>, <<"a">>, <<"b", ".", "a">>, <<".", "c">>}

\* The lists of at most MaxCookies response cookies, by their domains.
CookieLists ==
    UNION {[1..k -> CookieDomains] : k \in 0..MaxCookies}

\* A capture of load_har_entry: the first entry redirects and receives the
\* cookies.
EntryCapture(n, urls, redirectURL, domains) ==
    [entries |->
        [i \in 1..n |->
            IF i # 1 THEN PlainEntry(urls[i], i, "page_1")
            ELSE [PlainEntry(urls[i], i, "page_1") EXCEPT
                     !.redirectURL = redirectURL,
                     !.responseCookies =
                         [j \in 1..Len(domains) |->
                             [name |-> <<"k">>, value |-> <<"v">>, domain |-> domains[j]]]]],
     pages |-> <<[id |-> "page_1", startedDateTime |-> 1]>>,
     final_redirect |-> <<>>, cookies |-> <<>>]

\* ------------------------------------------------------------------------
\* The captures of a crawl
\* ------------------------------------------------------------------------

\* The most HAR files of a crawl.
MaxCaptures == 3

UrlPage ==
    <<"h", "t", "t", "p", ":", "/", "/", "a", "/", "p", "a", "g", "e">>

\* An entry with the Referer header referer (None: no header).
WithReferer(entry, referer) ==
    IF referer = None THEN entry
    ELSE WithRelation(entry, [kind |-> "referer", target |-> referer])

\* The first capture of a crawl: UrlA alone, or UrlA and UrlPage, which the
\* first entry redirects to or which has it as its Referer; final_redirect
\* is the content of the last_redirect side-car.
RootCaptures ==
    {[entries |-> <<PlainEntry(UrlA, 1, "page_1")>>,
      pages |-> <<[id |-> "page_1", startedDateTime |-> 1]>>,
      final_redirect |-> <<>>, cookies |-> <<>>]}
    \cup {[entries |->
              <<IF kind = "redirect"
                THEN WithRelation(PlainEntry(UrlA, 1, "page_1"),
                                  [kind |-> kind, target |-> UrlPage])
                ELSE PlainEntry(UrlA, 1, "page_1"),
                WithReferer(PlainEntry(UrlPage, 2, "page_1"),
                            IF kind = "referer" THEN UrlA ELSE None)>>,
           pages |-> <<[id |-> "page_1", startedDateTime |-> 1]>>,
           final_redirect |-> final, cookies |-> <<>>] :
            kind \in {"redirect", "referer"}, final \in {<<>>, UrlPage}}

\* The later captures of a crawl: one entry, or two, the second with the
\* first as its Referer; the first entry has the Referer header referer
\* (None: no header).
SubCaptures ==
    {[entries |->
         [i \in 1..n |->
             WithReferer(PlainEntry(IF i = 1 THEN url ELSE UrlB, i, "page_1"),
                         IF i = 1 THEN referer ELSE url)],
      pages |-> <<[id |-> "page_1", startedDateTime |-> 1]>>,
      final_redirect |-> <<>>, cookies |-> <<>>] :
        n \in 1..2, url \in {UrlFNoFragment, UrlPage},
        referer \in {None, UrlA, UrlPage, UrlFNoFragment}}

\* ------------------------------------------------------------------------
\* The state and the operations
\* ------------------------------------------------------------------------

VARIABLES
    pc,          \* what has run: "new", "loaded", "tree", "joined", "raised",
                 \* "rebuilt"; "running": make_tree does not return
    harfiles,    \* the HAR files given, with their side-cars
    hartree,     \* the Har2Tree object, None before it is constructed
    documents,   \* the documents to_json has emitted, oldest first
    crawledtree, \* the CrawledTree object, None before it is constructed
    url_call,    \* the call of rebuild_url: its arguments and what it returned
    harfile      \* the HarFile object, None before it is constructed

vars == <<pc, harfiles, hartree, documents, crawledtree, url_call, harfile>>

InitWith(har) ==
    /\ pc = "new"
    /\ harfiles = <<har>>
    /\ hartree = None
    /\ documents = <<>>
    /\ crawledtree = None
    /\ url_call = None
    /\ harfile = None

\* The captures of the resolver: the first entry is UrlA.
Init ==
    \E n \in 1..MaxEntries :
        \E urls \in {u \in [1..n -> {UrlA, UrlB, UrlF}] : u[1] = UrlA},
           chosen \in RelationChoices(n),
           layout \in PageLayouts(n) :
            InitWith(TreeCapture(n, urls, chosen, layout))

\* Har2Tree(har_path) on a HAR file with entries.
Construct ==
    /\ pc = "new"
    /\ LET Built(t) ==
               /\ hartree' = t
               /\ pc' = IF t.raised THEN "raised" ELSE "loaded"
       IN  Built(NewHar2Tree(harfiles[1], 1))
    /\ UNCHANGED <<harfiles, documents, crawledtree, url_call, harfile>>

\* Har2Tree.make_tree()
MakeTreeCall ==
    /\ pc = "loaded"
    /\ LET Made(t) ==
               /\ hartree' = t
               /\ pc' = IF t.overrun THEN "running"
                        ELSE IF t.raised THEN "raised" ELSE "tree"
       IN  Made(MakeTree(hartree))
    /\ UNCHANGED <<harfiles, documents, crawledtree, url_call, harfile>>

\* Har2Tree.to_json()
ToJson ==
    /\ pc = "tree"
    /\ Len(documents) < MaxEmit
    /\ documents' = Append(documents, ToJsonDocuments(hartree))
    /\ hartree' = AfterToJson(hartree)
    /\ UNCHANGED <<pc, harfiles, crawledtree, url_call, harfile>>

Next == Construct \/ MakeTreeCall

\* The resolver: construction and make_tree on the captures of the resolver.
Spec == Init /\ [][Next]_vars

\* A call that was made runs: the constructor and make_tree leave the
\* states they are called in, for the state they return or raise in or for
\* the one of a call that does not end.
Runs ==
    /\ pc \in {"new", "loaded"}
    /\ pc' \in {"loaded", "tree", "raised", "running"}

\* The resolver, every call that was made running.
SpecFair == Init /\ [][Next]_vars /\ WF_pc(Runs)

\* The captures of the hostname tree: the first entry is UrlA.
InitHost ==
    \E n \in 1..MaxEntries :
        \E urls \in {u \in [1..n -> {UrlA, UrlB, UrlS, UrlFNoFragment}] :
                        u[1] = UrlA /\ \A i \in 2..n : u[i] # UrlA},
           mimes \in {m \in [1..n -> MimesOfEntry(1) \cup MimesOfEntry(2)] :
                         \A i \in 1..n : m[i] \in MimesOfEntry(i)},
           links \in {l \in [1..n -> 0..n] : l[1] = 0 /\ \A i \in 2..n : l[i] < i},
           mode \in RootModes(n) :
            InitWith(HostCapture(n, urls, mimes, links, mode))

NextHost == Construct \/ MakeTreeCall \/ ToJson

\* The hostname tree: construction, make_tree and to_json on the captures of
\* the hostname tree.
SpecHost == InitHost /\ [][NextHost]_vars


\* The captures of load_har_entry.
InitEntry ==
    \E n \in 1..(MaxEntries - 1) :
        \E urls \in [1..n -> {UrlX, UrlPlus, UrlBa}],
           redirectURL \in RedirectUrls,
           domains \in CookieLists :
            InitWith(EntryCapture(n, urls, redirectURL, domains))

\* load_har_entry: construction and make_tree on the captures of
\* load_har_entry.
SpecEntry == InitEntry /\ [][Next]_vars

\* CrawledTree(harfiles)
Crawl ==
    /\ pc = "new"
    /\ LET Built(c) ==
               /\ crawledtree' = c
               /\ pc' = IF c.raised THEN "raised" ELSE "joined"
       IN  Built(NewCrawledTree(harfiles))
    /\ UNCHANGED <<harfiles, hartree, documents, url_call, harfile>>

\* The crawls: a first capture and at most MaxCaptures - 1 later ones.
InitCrawl ==
    \E root \in RootCaptures :
        \E subs \in UNION {[1..k -> SubCaptures] : k \in 0..(MaxCaptures - 1)} :
            /\ pc = "new"
            /\ harfiles = <<root>> \o subs
            /\ hartree = None
            /\ documents = <<>>
            /\ crawledtree = None
            /\ url_call = None
            /\ harfile = None

NextCrawl == Crawl

\* The crawl: CrawledTree on the crawls.
SpecCrawl == InitCrawl /\ [][NextCrawl]_vars
\* ------------------------------------------------------------------------
\* The URL tree (claims C1, C2)
\* ------------------------------------------------------------------------

\* The number of children slots, over all the nodes, that hold the node i.
Occurrences(t, i) ==
    LET slots == Concat([p \in 1..Len(t.nodes) |-> t.nodes[p].children])
    IN  Cardinality({s \in 1..Len(slots) : slots[s] = i})

\* The node n is in the subtree of the node root.
InSubtree(t, n, root) == InList(n, LevelOrder(t.nodes, <<root>>))

\* The node has a redirect that load_har_entry resolved to an entry.
ResolvedRedirect(node) ==
    "redirect" \in node.features /\ "redirect_to_nothing" \notin node.features

\* C1: whenever make_tree returns, nodes_list is empty and the URL tree
\* rooted at the first entry holds the node of every entry exactly once:
\* every node but the root has one parent, fills one children slot, and was
\* attached by one pass.
C1_TreeHoldsEveryEntryOnce ==
    pc = "tree" =>
        LET t == hartree
            N == Len(t.har.entries)
            reached == LevelOrder(t.nodes, <<t.url_tree>>)
        IN  /\ t.nodes_list = <<>>
            /\ Len(t.nodes) = N
            /\ Len(reached) = N
            /\ Range(reached) = 1..N
            /\ t.nodes[t.url_tree].up = 0
            /\ Occurrences(t, t.url_tree) = 0
            /\ \A i \in (1..N) \ {t.url_tree} :
                  /\ t.nodes[i].up \in 1..N
                  /\ InList(i, t.nodes[t.nodes[i].up].children)
                  /\ Occurrences(t, i) = 1
                  /\ t.via[i] # "none"

\* C1, its case: make_tree returned a tree of three entries of which one was
\* attached by the redirect pass and one by the post-pass.
C1_Witness ==
    /\ pc = "tree"
    /\ Len(hartree.nodes) = 3
    /\ \E i, j \in 2..3 : hartree.via[i] = "redirect" /\ hartree.via[j] = "page"

\* The entries E of claim C2: an initiator_url that is the name of another
\* entry, and a Referer header naming another URL.
HasInitiatorAndOtherReferer(t, e) ==
    /\ t.nodes[e].initiator_url # None
    /\ \E a \in 1..Len(t.nodes) : a # e /\ t.nodes[a].name = t.nodes[e].initiator_url
    /\ t.nodes[e].referer # None
    /\ t.nodes[e].referer # t.nodes[e].initiator_url

\* C2 as stated: in the tree make_tree returns, an entry with an
\* initiator_url naming an entry A and a Referer naming another URL is a
\* child of a node named A.
C2_InitiatorAlwaysWins ==
    pc = "tree" =>
        \A e \in 1..Len(hartree.nodes) :
            HasInitiatorAndOtherReferer(hartree, e) =>
                /\ hartree.nodes[e].up # 0
                /\ hartree.nodes[hartree.nodes[e].up].name = hartree.nodes[e].initiator_url

\* C2 amended: when _make_subtree starts on a node named A that has no
\* resolved redirect while such an entry E is still in nodes_list, E ends in
\* the subtree of that node, and if it is its child the initiator pass
\* attached it.
C2_InitiatorBeforeReferer ==
    pc = "tree" =>
        \A e, a \in 1..Len(hartree.nodes) :
            (/\ HasInitiatorAndOtherReferer(hartree, e)
             /\ hartree.nodes[a].name = hartree.nodes[e].initiator_url
             /\ ~ResolvedRedirect(hartree.nodes[a])
             /\ e \in hartree.pending[a])
            => /\ InSubtree(hartree, e, a)
               /\ hartree.nodes[e].up = a => hartree.via[e] = "initiator"

\* C2, its case: an entry whose Referer names an entry B and whose initiator
\* names an entry A was attached to the node of A by the initiator pass,
\* B being in the tree too.
C2_Witness ==
    /\ pc = "tree"
    /\ \E e, a, b \in 1..Len(hartree.nodes) :
          /\ HasInitiatorAndOtherReferer(hartree, e)
          /\ hartree.nodes[b].name = hartree.nodes[e].referer
          /\ hartree.nodes[a].name = hartree.nodes[e].initiator_url
          /\ e \in hartree.pending[a]
          /\ hartree.nodes[e].up = a
          /\ hartree.via[e] = "initiator"

\* ------------------------------------------------------------------------
\* CrawledTree.join_trees (claim C4)
\* ------------------------------------------------------------------------

\* The URL join_trees looks the sub-captures of a capture up by.
JoinKey(har) ==
    IF HasInitialRedirects(har) THEN FinalRedirect(har) ELSE RootUrl(har)

\* The nodes of the joined tree that are copies of the root of the URL tree
\* of the sub-capture.
CopiesOfRoot(c, sub_tree) ==
    {n \in (Len(c.root_hartree.har.entries) + 1)..Len(c.root_hartree.nodes) :
        c.root_hartree.nodes[n].uuid = sub_tree.nodes[sub_tree.url_tree].uuid}

\* The subtree of the node n of the joined tree holds a copy of every node
\* of the URL tree of the sub-capture, uuid included, under a copy of its
\* parent.
IsDeepCopy(c, n, sub_tree) ==
    LET nodes == c.root_hartree.nodes
        below == LevelOrder(nodes, <<n>>)
    IN  /\ Len(below) >= Len(sub_tree.nodes)
        /\ \A j \in 1..Len(sub_tree.nodes) :
              \E d \in Range(below) :
                  /\ nodes[d].uuid = sub_tree.nodes[j].uuid
                  /\ nodes[d].name = sub_tree.nodes[j].name
                  /\ j # sub_tree.url_tree
                        => nodes[nodes[d].up].uuid = sub_tree.nodes[sub_tree.nodes[j].up].uuid

\* C4 as stated: a sub-capture whose root referer is the URL of a node N of
\* the URL tree of the first capture gets a copy of its URL tree attached as
\* a child of N.
C4_AttachedUnderRefererNode ==
    pc = "joined" =>
        \A s \in 1..Len(crawledtree.hartrees) :
            \A N \in 1..Len(crawledtree.root_hartree.har.entries) :
                crawledtree.root_hartree.nodes[N].name
                    = RootReferrer(crawledtree.hartrees[s].har)
                => \E n \in CopiesOfRoot(crawledtree, crawledtree.hartrees[s]) :
                      /\ crawledtree.root_hartree.nodes[n].up = N
                      /\ InList(n, crawledtree.root_hartree.nodes[N].children)

\* C4 amended: a sub-capture whose root referer is root_after_redirect of the
\* first capture, when that has initial redirects, and its root URL
\* otherwise, gets a deep copy of its URL tree, uuids included, attached as
\* a child of the root of the URL tree of the first capture, whichever node
\* has the URL of the referer; every copy join_trees attaches is a child of
\* that root or of the copied root of an attached sub-capture; a sub-capture
\* whose root referer is the URL join_trees looks up for no capture is not
\* attached.
C4_AttachedUnderCaptureRoot ==
    pc = "joined" =>
        LET c     == crawledtree
            t     == c.root_hartree
            Sub(s) == c.hartrees[s]
        IN  /\ \A s \in 1..Len(c.hartrees) :
                  RootReferrer(Sub(s).har) = JoinKey(t.har) =>
                      \E n \in CopiesOfRoot(c, Sub(s)) :
                          /\ t.nodes[n].up = t.url_tree
                          /\ InList(n, t.nodes[t.url_tree].children)
                          /\ IsDeepCopy(c, n, Sub(s))
            /\ \A n \in 1..Len(t.nodes) :
                  t.via[n] = "join" =>
                      t.nodes[n].up = t.url_tree \/ t.via[t.nodes[n].up] = "join"
            /\ \A s \in 1..Len(c.hartrees) :
                  (/\ RootReferrer(Sub(s).har) # JoinKey(t.har)
                   /\ \A p \in 1..Len(c.hartrees) :
                         RootReferrer(Sub(s).har) # JoinKey(Sub(p).har))
                  => CopiesOfRoot(c, Sub(s)) = {}

\* C4, its case: the first capture redirects from UrlA to UrlPage, a
\* sub-capture of two entries has the Referer UrlPage, and its copy is a
\* child of the node of UrlA; a sub-capture of that sub-capture is attached
\* to the copied root.
C4_Witness ==
    /\ pc = "joined"
    /\ Len(crawledtree.hartrees) = 2
    /\ HasInitialRedirects(crawledtree.root_hartree.har)
    /\ crawledtree.root_hartree.nodes[2].name = UrlPage
    /\ RootReferrer(crawledtree.hartrees[1].har) = UrlPage
    /\ Len(crawledtree.hartrees[1].nodes) = 2
    /\ \E n \in CopiesOfRoot(crawledtree, crawledtree.hartrees[1]) :
          /\ crawledtree.root_hartree.nodes[n].up = 1
          /\ \E m \in CopiesOfRoot(crawledtree, crawledtree.hartrees[2]) :
                crawledtree.root_hartree.nodes[m].up = n

\* ------------------------------------------------------------------------
\* The hostname tree (claims C3, C5, C6, C7, C8)
\* ------------------------------------------------------------------------

\* The host nodes whose urls hold the URL node i.
HostsOf(t, i) == {h \in 1..Len(t.hosts) : InList(i, t.hosts[h].urls)}

\* The capture is a redirect chain of two entries on the host a, the second
\* one an HTML document.
IsRedirectChainOnA(t) ==
    /\ Len(t.nodes) = 2
    /\ t.nodes[1].hostname = <<"a">> /\ t.nodes[2].hostname = <<"a">>
    /\ ResolvedRedirect(t.nodes[1])
    /\ t.nodes[1].redirect_url = t.nodes[2].name
    /\ t.nodes[1].features \cap MimeFlags = {"unset_mimetype"}
    /\ t.nodes[2].features \cap MimeFlags = {"html"}
    /\ t.nodes[2].up = 1

\* C3 as stated: after make_tree a URL node with the hostname of its parent
\* URL node is in the urls of the host node of its parent, and the redirect
\* chain E1 -> E2 on the host a gives one host node a with urls = [E1, E2],
\* redirect = 1 and html = 1.
C3_FoldedIntoParentHost ==
    pc = "tree" =>
        /\ \A i \in 1..Len(hartree.nodes) :
              (/\ hartree.nodes[i].up # 0
               /\ hartree.nodes[i].hostname = hartree.nodes[hartree.nodes[i].up].hostname)
              => HostsOf(hartree, i) \cap HostsOf(hartree, hartree.nodes[i].up) # {}
        /\ IsRedirectChainOnA(hartree) =>
              /\ Len(hartree.hosts) = 1
              /\ hartree.hosts[1].urls = <<1, 2>>
              /\ hartree.hosts[1].count["redirect"] = 1
              /\ hartree.hosts[1].count["html"] = 1

\* C3 amended: after make_tree every URL node is in the urls of one host
\* node, which has its hostname; the host node of a URL node below the root
\* is a child of the host node of its parent URL node, also when the two
\* hostnames are equal, and the children of one URL node that share a
\* hostname share their host node. The redirect chain E1 -> E2 on the host a
\* gives a host node a with urls = [E1] and redirect = 1 whose one child is a
\* host node a with urls = [E2] and html = 1.
C3_FoldedBelowParentHost ==
    pc = "tree" =>
        LET t == hartree
            HostOf(i) == CHOOSE h \in HostsOf(t, i) : TRUE
        IN  /\ \A i \in 1..Len(t.nodes) :
                  /\ Cardinality(HostsOf(t, i)) = 1
                  /\ t.hosts[HostOf(i)].name = t.nodes[i].hostname
                  /\ t.nodes[i].up # 0 =>
                        /\ HostOf(i) # HostOf(t.nodes[i].up)
                        /\ t.hosts[HostOf(i)].up = HostOf(t.nodes[i].up)
                        /\ InList(HostOf(i), t.hosts[HostOf(t.nodes[i].up)].children)
            /\ \A i, j \in 1..Len(t.nodes) :
                  (/\ t.nodes[i].up # 0
                   /\ t.nodes[i].up = t.nodes[j].up
                   /\ t.nodes[i].hostname = t.nodes[j].hostname)
                  => HostOf(i) = HostOf(j)
            /\ IsRedirectChainOnA(t) =>
                  /\ Len(t.hosts) = 2
                  /\ t.hosts[1].urls = <<1>> /\ t.hosts[1].children = <<2>>
                  /\ t.hosts[1].count["redirect"] = 1 /\ t.hosts[1].count["html"] = 0
                  /\ t.hosts[2].urls = <<2>> /\ t.hosts[2].children = <<>>
                  /\ t.hosts[2].name = <<"a">>
                  /\ t.hosts[2].count["redirect"] = 0 /\ t.hosts[2].count["html"] = 1

\* C3, its case: make_tree returned the tree of the redirect chain on a.
C3_Witness ==
    /\ pc = "tree"
    /\ IsRedirectChainOnA(hartree)
    /\ hartree.via[2] = "redirect"

\* The host node holds an http:// URL and an https:// URL.
HasMixedUrls(t, h) ==
    /\ \E i \in Range(t.hosts[h].urls) : StartsWith(t.nodes[i].name, <<"h", "t", "t", "p", ":", "/", "/">>)
    /\ \E i \in Range(t.hosts[h].urls) : StartsWith(t.nodes[i].name, <<"h", "t", "t", "p", "s", ":", "/", "/">>)

\* C5: every document to_json emits for a host node whose urls hold an
\* http:// URL and an https:// URL, the first one included, carries
\* http_content, https_content and mixed_content true.
C5_MixedContentEmitted ==
    pc = "tree" =>
        \A d \in 1..Len(documents) : \A h \in 1..Len(hartree.hosts) :
            HasMixedUrls(hartree, h) =>
                /\ documents[d][h].features.http_content
                /\ documents[d][h].features.https_content
                /\ documents[d][h].features.mixed_content

\* The nodes of the capture whose external_ressources list the URL.
Embedders(t, url) ==
    {n \in 1..Len(t.nodes) :
        /\ "external_ressources" \in t.nodes[n].features
        /\ \E j \in 1..Len(t.nodes[n].external_ressources) :
              t.nodes[n].external_ressources[j].url = url}

\* C6 as stated: after construction and make_tree every URL node carries
\* exactly one of the category flags.
C6_ExactlyOneMimeFlag ==
    pc = "tree" =>
        \A i \in 1..Len(hartree.nodes) :
            Cardinality(hartree.nodes[i].features \cap MimeFlags) = 1

\* C6 amended: after construction and make_tree every URL node carries at
\* least one of the category flags, and exactly one unless the
\* external_ressources of a node of the capture list its URL.
C6_OneMimeFlagUnlessEmbedded ==
    pc = "tree" =>
        \A i \in 1..Len(hartree.nodes) :
            /\ Cardinality(hartree.nodes[i].features \cap MimeFlags) >= 1
            /\ Embedders(hartree, hartree.nodes[i].name) = {}
                  => Cardinality(hartree.nodes[i].features \cap MimeFlags) = 1

\* C6, its case: an HTML document that the first entry embeds as an image
\* carries html and image, next to a node that nothing embeds.
C6_Witness ==
    /\ pc = "tree"
    /\ \E i, j \in 1..Len(hartree.nodes) :
          /\ hartree.nodes[i].features \cap MimeFlags = {"html", "image"}
          /\ Embedders(hartree, hartree.nodes[i].name) = {1}
          /\ Embedders(hartree, hartree.nodes[j].name) = {}
          /\ j # 1

\* C7: after make_tree on a capture whose nodes all have a hostname, the URL
\* nodes reachable from the root of the URL tree are the URL nodes in the
\* urls of the host nodes of the hostname tree.
C7_HostnameTotality ==
    (pc = "tree" /\ \A i \in 1..Len(hartree.nodes) : hartree.nodes[i].hostname # <<>>)
    => Range(LevelOrder(hartree.nodes, <<hartree.url_tree>>))
         = UNION {Range(hartree.hosts[h].urls) :
                    h \in Range(LevelOrder(hartree.hosts, <<1>>))}

\* C7, its case: a tree of three entries, two levels below the root, folded
\* into three host nodes.
C7_Witness ==
    /\ pc = "tree"
    /\ Len(hartree.nodes) = 3
    /\ hartree.nodes[3].up = 2 /\ hartree.nodes[2].up = 1
    /\ Len(hartree.hosts) = 3

\* The number of the urls of the host node that carry one of the flags.
UrlsCarrying(t, h, flags) ==
    Cardinality({k \in 1..Len(t.hosts[h].urls) :
                   t.nodes[t.hosts[h].urls[k]].features \cap flags # {}})

\* The counters that count the urls carrying the flag of their name.
SameNameCounters ==
    {"js", "redirect", "redirect_to_nothing", "image", "css", "json", "html", "font",
     "octet_stream", "text", "iframe"}

\* C8 as stated: every counter of a host node, livestream and unset_mimetype
\* included, is the number of its urls carrying the flag of the same name,
\* video the number of those carrying video or livestream, unknown_mimetype
\* the number of those carrying unknown_mimetype or unset_mimetype.
C8_CountersByName ==
    pc = "tree" =>
        \A h \in 1..Len(hartree.hosts) :
            /\ \A c \in SameNameCounters \cup {"livestream", "unset_mimetype"} :
                  hartree.hosts[h].count[c] = UrlsCarrying(hartree, h, {c})
            /\ hartree.hosts[h].count["video"]
                 = UrlsCarrying(hartree, h, {"video", "livestream"})
            /\ hartree.hosts[h].count["unknown_mimetype"]
                 = UrlsCarrying(hartree, h, {"unknown_mimetype", "unset_mimetype"})

\* C8 amended: the counters js, redirect, redirect_to_nothing, image, css,
\* json, html, font, octet_stream, text and iframe of a host node are the
\* numbers of its urls carrying the flag of the same name, video the number
\* of those carrying video or livestream, unknown_mimetype the number of
\* those carrying unknown_mimetype or unset_mimetype; the counters
\* livestream and unset_mimetype stay 0.
C8_CountersAggregated ==
    pc = "tree" =>
        \A h \in 1..Len(hartree.hosts) :
            /\ \A c \in SameNameCounters :
                  hartree.hosts[h].count[c] = UrlsCarrying(hartree, h, {c})
            /\ hartree.hosts[h].count["video"]
                 = UrlsCarrying(hartree, h, {"video", "livestream"})
            /\ hartree.hosts[h].count["unknown_mimetype"]
                 = UrlsCarrying(hartree, h, {"unknown_mimetype", "unset_mimetype"})
            /\ hartree.hosts[h].count["livestream"] = 0
            /\ hartree.hosts[h].count["unset_mimetype"] = 0

\* C8, its case: a host node with two urls, a video and a livestream, and
\* the host node of a first entry without mimeType.
C8_Witness ==
    /\ pc = "tree"
    /\ "unset_mimetype" \in hartree.nodes[1].features
    /\ \E h \in 1..Len(hartree.hosts) :
          /\ Len(hartree.hosts[h].urls) = 2
          /\ hartree.hosts[h].count["video"] = 2
          /\ UrlsCarrying(hartree, h, {"video"}) = 1
          /\ UrlsCarrying(hartree, h, {"livestream"}) = 1

\* ------------------------------------------------------------------------
\* load_har_entry (claims C9, C10)
\* ------------------------------------------------------------------------

\* The names of the entries of the capture.
Names(t) == {t.nodes[i].name : i \in 1..Len(t.nodes)}

\* C9 as stated: a URL node built from an entry with a redirectURL has
\* redirect_url; with redirect_to_nothing the stored redirect_url is the
\* name of no entry, without it the stored redirect_url is the name of an
\* entry.
C9_RedirectUrlSound ==
    pc \in {"loaded", "tree"} =>
        \A i \in 1..Len(hartree.nodes) :
            hartree.har.entries[i].redirectURL # <<>> =>
                /\ "redirect_url" \in hartree.nodes[i].features
                /\ hartree.nodes[i].redirect_url # None
                /\ "redirect_to_nothing" \in hartree.nodes[i].features
                      => hartree.nodes[i].redirect_url \notin Names(hartree)
                /\ "redirect_to_nothing" \notin hartree.nodes[i].features
                      => hartree.nodes[i].redirect_url \in Names(hartree)

\* C9 amended: a URL node built from an entry with a redirectURL has redirect
\* and redirect_url; with redirect_to_nothing the stored redirect_url is the
\* redirectURL as the entry gives it and the URL rebuild_url makes of it is
\* the name of no entry; without it the stored redirect_url is the name of
\* an entry.
C9_RebuiltRedirectSound ==
    pc \in {"loaded", "tree"} =>
        \A i \in 1..Len(hartree.nodes) :
            hartree.har.entries[i].redirectURL # <<>> =>
                /\ {"redirect", "redirect_url"} \subseteq hartree.nodes[i].features
                /\ "redirect_to_nothing" \in hartree.nodes[i].features
                      => /\ hartree.nodes[i].redirect_url
                              = hartree.har.entries[i].redirectURL
                         /\ rebuild_url(hartree.nodes[i].name,
                                        hartree.har.entries[i].redirectURL,
                                        AllRequests(hartree.har)) \notin Names(hartree)
                /\ "redirect_to_nothing" \notin hartree.nodes[i].features
                      => hartree.nodes[i].redirect_url \in Names(hartree)

\* C9, its case: the redirect resolves to nothing, as the URL rebuild_url
\* makes of the redirectURL is the name of no entry, while the redirectURL
\* as the entry gives it, which is stored, is the name of the second entry.
C9_Witness ==
    /\ pc = "loaded"
    /\ Len(hartree.nodes) = 2
    /\ "redirect_to_nothing" \in hartree.nodes[1].features
    /\ hartree.nodes[1].redirect_url = hartree.nodes[2].name

\* The domain is the hostname or is made of the hostname after labels of
\* its own: the hostname is a domain-suffix of it.
IsDomainSuffix(hostname, domain) ==
    domain = hostname \/ EndsWith(domain, <<".">> \o hostname)

\* cookie.domain with a leading '.' stripped, the hostname of the node for a
\* cookie without domain.
EffectiveDomain(cookie, hostname) ==
    IF cookie.domain = None \/ cookie.domain = <<>> THEN hostname
    ELSE IF Head(cookie.domain) = "." THEN Tail(cookie.domain)
    ELSE cookie.domain

\* C10 as stated: the is_third_party element of cookies_received is true iff
\* the hostname of the node is not a domain-suffix of the effective domain of
\* the cookie, and set_third_party_cookies is true iff a received cookie is
\* third-party.
C10_ThirdPartyByHostnameSuffix ==
    pc \in {"loaded", "tree"} =>
        \A i \in 1..Len(hartree.nodes) :
            LET node    == hartree.nodes[i]
                cookies == hartree.har.entries[i].responseCookies
            IN  /\ Len(node.cookies_received) = Len(cookies)
                /\ \A j \in 1..Len(cookies) :
                      node.cookies_received[j][3]
                        <=> ~IsDomainSuffix(node.hostname,
                                            EffectiveDomain(cookies[j], node.hostname))
                /\ node.set_third_party_cookies
                     <=> \E j \in 1..Len(cookies) : node.cookies_received[j][3]

\* C10 amended: the is_third_party element of cookies_received is true iff
\* the effective domain of the cookie is not a suffix, as a string, of the
\* hostname of the node, and set_third_party_cookies, which a node with
\* response cookies has, is true iff a received cookie is third-party.
C10_ThirdPartyByDomainSuffix ==
    pc \in {"loaded", "tree"} =>
        \A i \in 1..Len(hartree.nodes) :
            LET node    == hartree.nodes[i]
                cookies == hartree.har.entries[i].responseCookies
            IN  /\ Len(node.cookies_received) = Len(cookies)
                /\ \A j \in 1..Len(cookies) :
                      /\ node.cookies_received[j][1]
                           = EffectiveDomain(cookies[j], node.hostname)
                      /\ node.cookies_received[j][3]
                           <=> ~EndsWith(node.hostname,
                                         EffectiveDomain(cookies[j], node.hostname))
                /\ "set_third_party_cookies" \in node.features <=> Len(cookies) # 0
                /\ node.set_third_party_cookies
                     <=> \E j \in 1..Len(cookies) : node.cookies_received[j][3]

\* C10, its case: the node of b.a received a cookie of the domain .a, which
\* is not third-party, and a cookie of the domain .c, which is.
C10_Witness ==
    /\ pc = "loaded"
    /\ hartree.nodes[1].hostname = <<"b", ".", "a">>
    /\ Len(hartree.nodes[1].cookies_received) = 2
    /\ hartree.nodes[1].cookies_received[1] = <<<<"a">>, <<"k", "=", "v">>, FALSE>>
    /\ hartree.nodes[1].cookies_received[2] = <<<<"c">>, <<"k", "=", "v">>, TRUE>>
    /\ hartree.nodes[1].set_third_party_cookies


\* ------------------------------------------------------------------------
\* rebuild_url as a function of its arguments
\* ------------------------------------------------------------------------

\* The base URLs and the partial URLs rebuild_url is called with.
BaseUrls ==
    {<<"h", "t", "t", "p", ":", "/", "/", "a", ".", "b", "/", "x">>, <<"h", "t", "t", "p", ":", "/", "/", "a", ".", "b", "/", "x", "/">>, <<"h", "t", "t", "p", ":", "/", "/", "a", ".", "b", "/", "x", "/", "y">>, <<"h", "t", "t", "p", ":", "/", "/", "a", ".", "b", "/", "x", "?", "q", "=", "1">>,
     <<"h", "t", "t", "p", ":", "/", "/", "a", ".", "b", "/", "x", ";", "p">>, <<"h", "t", "t", "p", ":", "/", "/", "a", ".", "b", "/", "x", "#", "f">>, <<"h", "t", "t", "p", "s", ":", "/", "/", "a", ".", "b", ":", "4", "4", "3", "/">>}

PartialUrls ==
    {<<"h", "t", "t", "p", "s", ":", "/", "/", "c", ".", "d", "/", "y">>, <<"/", "/", "c", ".", "d", "/", "y">>, <<"z", ".", "j", "s">>, <<"/", "z">>, <<"?", "r", "=", "2">>, <<";", "q">>, <<"#", "g">>, <<>>}

\* The lists of known URLs: none, or the URLs of a capture of a.b.
KnownUrlLists ==
    {<<>>, <<<<"h", "t", "t", "p", ":", "/", "/", "a", ".", "b", "/", "x", "/", "z", ".", "j", "s">>, <<"h", "t", "t", "p", ":", "/", "/", "a", ".", "b", "/", "z">>, <<"h", "t", "t", "p", ":", "/", "/", "a", ".", "b", "/", "x", "#", "g">>>>}

InitUrl ==
    \E base_url \in BaseUrls, partial \in PartialUrls, known_urls \in KnownUrlLists :
        /\ pc = "new"
        /\ harfiles = <<>>
        /\ hartree = None
        /\ documents = <<>>
        /\ crawledtree = None
        /\ harfile = None
        /\ url_call = [base_url |-> base_url, partial |-> partial,
                       known_urls |-> known_urls, final_url |-> None]

\* rebuild_url(base_url, partial, known_urls)
RebuildUrl ==
    /\ pc = "new"
    /\ url_call' = [url_call EXCEPT
                      !.final_url = rebuild_url(url_call.base_url, url_call.partial,
                                                url_call.known_urls)]
    /\ pc' = "rebuilt"
    /\ UNCHANGED <<harfiles, hartree, documents, crawledtree, harfile>>

NextUrl == RebuildUrl

\* rebuild_url on the base URLs, the partial URLs and the lists of known URLs.
SpecUrl == InitUrl /\ [][NextUrl]_vars

\* The rows of the boundary table of rebuild_url: base URL, partial URL and
\* the URL the table gives.
BoundaryTable ==
    {<<<<"h", "t", "t", "p", ":", "/", "/", "a", ".", "b", "/", "x">>,     <<"h", "t", "t", "p", "s", ":", "/", "/", "c", ".", "d", "/", "y">>, <<"h", "t", "t", "p", "s", ":", "/", "/", "c", ".", "d", "/", "y">>>>,
     <<<<"h", "t", "t", "p", ":", "/", "/", "a", ".", "b", "/", "x">>,     <<"/", "/", "c", ".", "d", "/", "y">>,       <<"h", "t", "t", "p", ":", "/", "/", "c", ".", "d", "/", "y">>>>,
     <<<<"h", "t", "t", "p", ":", "/", "/", "a", ".", "b", "/", "x", "/">>,    <<"z", ".", "j", "s">>,          <<"h", "t", "t", "p", ":", "/", "/", "a", ".", "b", "/", "x", "/", "z", ".", "j", "s">>>>,
     <<<<"h", "t", "t", "p", ":", "/", "/", "a", ".", "b", "/", "x", "/", "y">>,   <<"z", ".", "j", "s">>,          <<"h", "t", "t", "p", ":", "/", "/", "a", ".", "b", "/", "x", "/", "z", ".", "j", "s">>>>,
     <<<<"h", "t", "t", "p", ":", "/", "/", "a", ".", "b", "/", "x", "/", "y">>,   <<"/", "z">>,            <<"h", "t", "t", "p", ":", "/", "/", "a", ".", "b", "/", "z">>>>,
     <<<<"h", "t", "t", "p", ":", "/", "/", "a", ".", "b", "/", "x", "?", "q", "=", "1">>, <<"?", "r", "=", "2">>,          <<"h", "t", "t", "p", ":", "/", "/", "a", ".", "b", "/", "x", "?", "r", "=", "2">>>>,
     <<<<"h", "t", "t", "p", ":", "/", "/", "a", ".", "b", "/", "x", ";", "p">>,   <<";", "q">>,            <<"h", "t", "t", "p", ":", "/", "/", "a", ".", "b", "/", "x", ";", "q">>>>,
     <<<<"h", "t", "t", "p", ":", "/", "/", "a", ".", "b", "/", "x", "#", "f">>,   <<"#", "g">>,            <<"h", "t", "t", "p", ":", "/", "/", "a", ".", "b", "/", "x", "#", "g">>>>}

\* The same rows with the URL rebuild_url returns when no URL is known: the
\* path ends with a slash, and the fragment is the one of the base URL.
BoundaryTableWithSlash ==
    {<<<<"h", "t", "t", "p", ":", "/", "/", "a", ".", "b", "/", "x">>,     <<"h", "t", "t", "p", "s", ":", "/", "/", "c", ".", "d", "/", "y">>, <<"h", "t", "t", "p", "s", ":", "/", "/", "c", ".", "d", "/", "y", "/">>>>,
     <<<<"h", "t", "t", "p", ":", "/", "/", "a", ".", "b", "/", "x">>,     <<"/", "/", "c", ".", "d", "/", "y">>,       <<"h", "t", "t", "p", ":", "/", "/", "c", ".", "d", "/", "y", "/">>>>,
     <<<<"h", "t", "t", "p", ":", "/", "/", "a", ".", "b", "/", "x", "/">>,    <<"z", ".", "j", "s">>,          <<"h", "t", "t", "p", ":", "/", "/", "a", ".", "b", "/", "x", "/", "z", ".", "j", "s", "/">>>>,
     <<<<"h", "t", "t", "p", ":", "/", "/", "a", ".", "b", "/", "x", "/", "y">>,   <<"z", ".", "j", "s">>,          <<"h", "t", "t", "p", ":", "/", "/", "a", ".", "b", "/", "x", "/", "z", ".", "j", "s", "/">>>>,
     <<<<"h", "t", "t", "p", ":", "/", "/", "a", ".", "b", "/", "x", "/", "y">>,   <<"/", "z">>,            <<"h", "t", "t", "p", ":", "/", "/", "a", ".", "b", "/", "z", "/">>>>,
     <<<<"h", "t", "t", "p", ":", "/", "/", "a", ".", "b", "/", "x", "?", "q", "=", "1">>, <<"?", "r", "=", "2">>,          <<"h", "t", "t", "p", ":", "/", "/", "a", ".", "b", "/", "x", "/", "?", "r", "=", "2">>>>,
     <<<<"h", "t", "t", "p", ":", "/", "/", "a", ".", "b", "/", "x", ";", "p">>,   <<";", "q">>,            <<"h", "t", "t", "p", ":", "/", "/", "a", ".", "b", "/", "x", "/", ";", "q">>>>,
     <<<<"h", "t", "t", "p", ":", "/", "/", "a", ".", "b", "/", "x", "#", "f">>,   <<"#", "g">>,            <<"h", "t", "t", "p", ":", "/", "/", "a", ".", "b", "/", "x", "/", "#", "f">>>>}

\* The call returned what a table gives for its arguments, and the empty
\* string for an empty partial URL.
ReturnsAsIn(table) ==
    /\ \A row \in table :
          url_call.base_url = row[1] /\ url_call.partial = row[2]
              => url_call.final_url = row[3]
    /\ url_call.partial = <<>> => url_call.final_url = <<>>

NamesDownTo(c, name) ==
    LET NamesOf(path) == [x \in 1..Len(path) |-> c.root_hartree.nodes[path[x]].name]
        Down(found) ==
            IF Len(found) = 0 THEN <<>>
            ELSE NamesOf(PathFromRoot(c.root_hartree.nodes, found[1]))
    IN  Down(SearchName(c.root_hartree, name))

\* C12 as stated: redirects is the list of the names on the path from the
\* root of the tree to the node named root_after_redirect, which begins with
\* the root URL and ends with root_after_redirect, and the empty list when
\* the capture has no redirect chain.
C12_RedirectsEndAtRootAfterRedirect ==
    pc = "joined" =>
        IF RootAfterRedirect(crawledtree.root_hartree.har) = None
        THEN Redirects(crawledtree) = <<>>
        ELSE /\ Redirects(crawledtree)
                  = NamesDownTo(crawledtree,
                                RootAfterRedirect(crawledtree.root_hartree.har))
             /\ Redirects(crawledtree)[1] = RootUrl(crawledtree.root_hartree.har)
             /\ Redirects(crawledtree)[Len(Redirects(crawledtree))]
                  = RootAfterRedirect(crawledtree.root_hartree.har)

\* ------------------------------------------------------------------------
\* CrawledTree on HAR files without entries
\* ------------------------------------------------------------------------

\* The HAR files of a list: one without entries, the capture of UrlA, the
\* capture of http://b/ that has UrlA as the Referer of its first entry, and
\* a capture load_har_entry raises on (an _initiator of the type redirect).
HarFileKinds ==
    {[entries |-> <<>>,
      pages |-> <<[id |-> "page_1", startedDateTime |-> 1]>>,
      final_redirect |-> <<>>, cookies |-> <<>>],
     [entries |-> <<PlainEntry(UrlA, 1, "page_1")>>,
      pages |-> <<[id |-> "page_1", startedDateTime |-> 1]>>,
      final_redirect |-> <<>>, cookies |-> <<>>],
     [entries |-> <<WithReferer(PlainEntry(UrlFNoFragment, 1, "page_1"), UrlA)>>,
      pages |-> <<[id |-> "page_1", startedDateTime |-> 1]>>,
      final_redirect |-> <<>>, cookies |-> <<>>],
     [entries |-> <<[PlainEntry(UrlB, 1, "page_1") EXCEPT
                        !.initiator = [type |-> "redirect", url |-> <<>>,
                                       stack |-> <<>>]]>>,
      pages |-> <<[id |-> "page_1", startedDateTime |-> 1]>>,
      final_redirect |-> <<>>, cookies |-> <<>>]}

\* The lists of HAR files: at most MaxCaptures files, the empty list included.
InitFiles ==
    \E files \in UNION {[1..k -> HarFileKinds] : k \in 0..MaxCaptures} :
        /\ pc = "new"
        /\ harfiles = files
        /\ hartree = None
        /\ documents = <<>>
        /\ crawledtree = None
        /\ url_call = None
        /\ harfile = None

\* The crawl on lists of HAR files some of which have no entries.
SpecFiles == InitFiles /\ [][NextCrawl]_vars

\* The HAR files of the list that have entries, in the order of the list.
WithEntries(files) ==
    Collect(Len(files), LAMBDA k : Len(files[k].entries) > 0, LAMBDA k : files[k])

\* C13: CrawledTree(harfiles) raises Har2TreeError iff no HAR file of the
\* list has an entry (the empty list included); and when the constructor
\* completes, the files without entries were skipped: the root capture is the
\* first file that has entries, and the other trees are those of the later
\* files that have entries, in their order.
C13_Har2TreeErrorIffNoEntries ==
    pc \in {"joined", "raised"} =>
        /\ crawledtree.error = "Har2TreeError" <=> Len(WithEntries(harfiles)) = 0
        /\ pc = "joined" =>
              /\ crawledtree.root_hartree.har = WithEntries(harfiles)[1]
              /\ Len(crawledtree.hartrees) = Len(WithEntries(harfiles)) - 1
              /\ \A i \in 1..Len(crawledtree.hartrees) :
                    crawledtree.hartrees[i].har = WithEntries(harfiles)[i + 1]

\* C13, its case: a list of two HAR files without entries raised
\* Har2TreeError.
C13_Witness ==
    /\ pc = "raised"
    /\ Len(harfiles) = 2
    /\ \A k \in 1..2 : Len(harfiles[k].entries) = 0
    /\ crawledtree.error = "Har2TreeError"

\* ------------------------------------------------------------------------
\* The uuids of the combined tree
\* ------------------------------------------------------------------------

\* The copies in the combined tree: the nodes join_trees added.
CopiedNodes(c) ==
    (Len(c.root_hartree.har.entries) + 1)..Len(c.root_hartree.nodes)

\* The uuid of the node of the sub-capture the node n of the combined tree
\* is the copy of.
UuidOfOriginal(c, n) ==
    LET Original(s, j) == c.hartrees[s].nodes[j].uuid
    IN  Original(CHOOSE s \in 1..Len(c.hartrees) :
                     c.hartrees[s].capture = c.root_hartree.origin[n][1],
                 c.root_hartree.origin[n][2])

\* No two nodes of the combined URL tree have the same uuid.
UuidsPairwiseDistinct(c) ==
    \A n, m \in 1..Len(c.root_hartree.nodes) :
        n # m => c.root_hartree.nodes[n].uuid # c.root_hartree.nodes[m].uuid

\* C14 as stated: every node join_trees adds as part of a copied sub-capture
\* has a uuid that differs from the uuid of the original node it is the copy
\* of, and the uuids of the combined URL tree are pairwise distinct.
C14_CopiesHaveFreshUuids ==
    pc = "joined" =>
        /\ \A n \in CopiedNodes(crawledtree) :
              crawledtree.root_hartree.nodes[n].uuid # UuidOfOriginal(crawledtree, n)
        /\ UuidsPairwiseDistinct(crawledtree)

\* C14 amended: every node join_trees adds as part of a copied sub-capture
\* has the uuid of the original node it is the copy of, and the uuids of the
\* combined URL tree are pairwise distinct.
C14_CopiesKeepUuids ==
    pc = "joined" =>
        /\ \A n \in CopiedNodes(crawledtree) :
              crawledtree.root_hartree.nodes[n].uuid = UuidOfOriginal(crawledtree, n)
        /\ UuidsPairwiseDistinct(crawledtree)

\* C14, its case: two sub-captures of two entries each were copied into the
\* tree of a first capture of two entries.
C14_Witness ==
    /\ pc = "joined"
    /\ Len(crawledtree.root_hartree.har.entries) = 2
    /\ Len(crawledtree.root_hartree.nodes) = 6
    /\ crawledtree.root_hartree.via[3] = "join"
    /\ crawledtree.root_hartree.nodes[4].uuid = crawledtree.hartrees[1].nodes[2].uuid

\* ------------------------------------------------------------------------
\* The hostname tree of the combined tree
\* ------------------------------------------------------------------------

\* The number of the slots of urls, over all the host nodes, that hold the
\* URL node i.
UrlSlots(t, i) ==
    LET slots == Concat([h \in 1..Len(t.hosts) |-> t.hosts[h].urls])
    IN  Cardinality({s \in 1..Len(slots) : slots[s] = i})

\* C15 as stated: after the construction of a CrawledTree that attached a
\* sub-capture, every URL node of the combined URL tree is in the urls of
\* exactly one host node of the hostname tree of the root capture, and no two
\* host nodes below the same host node hold the same urls.
C15_HostnameTreeIsFoldOfCombinedTree ==
    (pc = "joined" /\ CopiedNodes(crawledtree) # {}) =>
        /\ \A i \in 1..Len(crawledtree.root_hartree.nodes) :
              UrlSlots(crawledtree.root_hartree, i) = 1
        /\ \A g, h \in 1..Len(crawledtree.root_hartree.hosts) :
              (/\ g # h
               /\ crawledtree.root_hartree.hosts[g].up = crawledtree.root_hartree.hosts[h].up)
              => crawledtree.root_hartree.hosts[g].urls
                   # crawledtree.root_hartree.hosts[h].urls

\* ------------------------------------------------------------------------
\* The resolver run twice
\* ------------------------------------------------------------------------

\* The URL tree and the hostname tree of a Har2Tree without the uuids: the
\* nodes in their order with their parent, children, features and counters.
WithoutUuids(t) ==
    [url_tree |-> t.url_tree,
     nodes |-> [i \in 1..Len(t.nodes) |->
                   [t.nodes[i] EXCEPT
                       !.uuid = None,
                       !.cookies_sent =
                           [j \in 1..Len(@) |->
                               [key |-> @[j].key,
                                setters |-> [x \in 1..Len(@[j].setters) |->
                                                [@[j].setters[x] EXCEPT !.uuid = None]]]]]],
     hosts |-> [h \in 1..Len(t.hosts) |-> [t.hosts[h] EXCEPT !.uuid = None]]]

\* The uuids of the URL nodes and of the host nodes of a Har2Tree.
UuidsOf(t) ==
    {t.nodes[i].uuid : i \in 1..Len(t.nodes)} \cup {t.hosts[h].uuid : h \in 1..Len(t.hosts)}

NamesAsParent(t, e, u) ==
    \/ t.nodes[e].initiator_url = t.nodes[u].name
    \/ t.nodes[e].referer = t.nodes[u].name
    \/ /\ "external_ressources" \in t.nodes[u].features
       /\ \E x \in 1..Len(t.nodes[u].external_ressources) :
             t.nodes[u].external_ressources[x].url = t.nodes[e].name

\* C17 as stated: every attached node goes through the five passes, so a
\* node with a resolved redirect still receives the nodes that are pending
\* when _make_subtree starts on it and that name it as their initiator or
\* referer or are among its external resources: they end in its subtree.
C17_AllPassesForEveryNode ==
    pc = "tree" =>
        \A u, e \in 1..Len(hartree.nodes) :
            (/\ ResolvedRedirect(hartree.nodes[u])
             /\ e \in hartree.pending[u]
             /\ NamesAsParent(hartree, e, u))
            => InSubtree(hartree, e, u)

\* C17 amended: _make_subtree applies to an attached node with a resolved
\* redirect the redirect pass alone, and to any other attached node the
\* initiator, referer, fragment-stripped referer and external passes in that
\* order. A node with a resolved redirect gets children from the redirect
\* pass (nodes named by its redirect_url) and from the page fallback only;
\* another node gets none from the redirect pass, and a child that was
\* pending when _make_subtree started on it comes from the initiator pass if
\* it names the node as its initiator, else from a referer pass if it names
\* the node, and not its own URL, as its referer.
C17_RedirectPassOrOtherPasses ==
    pc = "tree" =>
        \A u, e \in 1..Len(hartree.nodes) :
            hartree.nodes[e].up = u =>
                IF ResolvedRedirect(hartree.nodes[u])
                THEN /\ hartree.via[e] \in {"redirect", "page"}
                     /\ hartree.via[e] = "redirect"
                           => hartree.nodes[e].name = hartree.nodes[u].redirect_url
                ELSE /\ hartree.via[e] # "redirect"
                     /\ (e \in hartree.pending[u]
                         /\ hartree.nodes[e].initiator_url = hartree.nodes[u].name)
                           => hartree.via[e] = "initiator"
                     /\ (e \in hartree.pending[u]
                         /\ hartree.nodes[e].initiator_url # hartree.nodes[u].name
                         /\ hartree.nodes[e].referer = hartree.nodes[u].name
                         /\ hartree.nodes[e].referer # hartree.nodes[e].name)
                           => hartree.via[e] = "referer"

\* C17, its case: _make_subtree started on a node with a resolved redirect
\* while a node naming it as its referer was pending, and that node was
\* attached elsewhere.
C17_Witness ==
    /\ pc = "tree"
    /\ \E u, e \in 1..Len(hartree.nodes) :
          /\ ResolvedRedirect(hartree.nodes[u])
          /\ e \in hartree.pending[u]
          /\ hartree.nodes[e].referer = hartree.nodes[u].name
          /\ ~InSubtree(hartree, e, u)

\* ------------------------------------------------------------------------
\* The lookup tables after make_tree
\* ------------------------------------------------------------------------

\* C18 as stated: after make_tree no lookup table holds the entry of an edge
\* that attached a node: the redirect_url of the parent of a node attached
\* by the redirect pass is not in all_redirects, the name of a node attached
\* by a referer pass is not in the list all_referer has for its referer, the
\* name of a node attached by the initiator pass is not in the list
\* all_initiator_url has for its initiator_url, and the two dicts have no
\* key with an empty list.
C18_EdgesConsumedOnAttach ==
    pc = "tree" =>
        /\ \A e \in 1..Len(hartree.nodes) :
              /\ hartree.via[e] = "redirect"
                    => ~InList(hartree.nodes[hartree.nodes[e].up].redirect_url,
                               hartree.all_redirects)
              /\ hartree.via[e] = "referer"
                    => ~InList(hartree.nodes[e].name,
                               Get(hartree.all_referer, hartree.nodes[e].referer))
              /\ hartree.via[e] = "initiator"
                    => ~InList(hartree.nodes[e].name,
                               Get(hartree.all_initiator_url, hartree.nodes[e].initiator_url))
        /\ \A key \in DOMAIN hartree.all_referer : hartree.all_referer[key] # <<>>
        /\ \A key \in DOMAIN hartree.all_initiator_url :
              hartree.all_initiator_url[key] # <<>>

\* ------------------------------------------------------------------------
\* The post-pass of make_tree
\* ------------------------------------------------------------------------

\* The nodes the post-pass of make_tree popped from nodes_list: those it
\* attached and, when make_tree raised, the node it had popped last.
PoppedByPostPass(t) ==
    {n \in 1..Len(t.nodes) :
        \/ t.via[n] = "page"
        \/ /\ t.raised
           /\ n # t.url_tree
           /\ t.nodes[n].up = 0
           /\ ~InList(n, t.nodes_list)}

\* The ids of the pages the node n is to be attached to the root of: its
\* own page when it is not the root of that page, otherwise the page
\* immediately before its page in log.pages.
PageToAttachTo(t, n) ==
    IF t.nodes[n].pageref \in DOMAIN t.pages_root
       /\ t.pages_root[t.nodes[n].pageref] = t.nodes[n].uuid
    THEN {t.har.pages[i].id : i \in {j \in 1..(Len(t.har.pages) - 1) :
                                        t.har.pages[j + 1].id = t.nodes[n].pageref}}
    ELSE {t.nodes[n].pageref}

\* make_tree ran on a capture whose entries all refer to a page of log.pages.
RanOnKnownPages(t) ==
    /\ pc \in {"tree", "raised"}
    /\ t.url_tree # 0
    /\ \A i \in 1..Len(t.har.entries) :
          \E p \in 1..Len(t.har.pages) : t.har.pages[p].id = t.har.entries[i].pageref

\* C19 as stated: every node the post-pass pops is attached as a direct child
\* of the root of its own page when it is not the root of that page, and
\* otherwise as a direct child of the root of the page that immediately
\* precedes its page in log.pages.
C19_PoppedNodeUnderPageRoot ==
    RanOnKnownPages(hartree) =>
        \A n \in PoppedByPostPass(hartree) :
            /\ hartree.nodes[n].up # 0
            /\ \E page \in PageToAttachTo(hartree, n) :
                  /\ page \in DOMAIN hartree.pages_root
                  /\ hartree.nodes[hartree.nodes[n].up].uuid = hartree.pages_root[page]

\* C20 as stated: make_tree completes without raising on every capture in
\* which the pageref of each entry is the id of a page of log.pages.
C20_MakeTreeCompletes ==
    RanOnKnownPages(hartree) => ~hartree.raised

\* ------------------------------------------------------------------------
\* The termination of make_tree
\* ------------------------------------------------------------------------

\* C21: make_tree, once called, returns or raises on every capture, those
\* with cyclic referer, initiator or redirect relations, with self-references
\* and with several entries of one URL included: no call of _make_subtree is
\* nested deeper than the capture has entries, every nested call that
\* attaches a node having taken it from nodes_list.
C21_MakeTreeTerminates ==
    /\ [](pc # "running")
    /\ (pc = "loaded") ~> (pc \in {"tree", "raised"})

\* C21, its case: make_tree returned on a capture in which two entries name
\* each other as their referer, one of them having the URL of the root.
C21_Witness ==
    /\ pc = "tree"
    /\ \E e, f \in 2..Len(hartree.nodes) :
          /\ e # f
          /\ hartree.nodes[e].referer = hartree.nodes[f].name
          /\ hartree.nodes[f].referer = hartree.nodes[e].name
          /\ hartree.nodes[e].name = hartree.nodes[1].name
    /\ hartree.depth = 0

\* ------------------------------------------------------------------------
\* The initial redirects of a HAR file
\* ------------------------------------------------------------------------

\* The URLs of the entries after the first.
LaterUrls ==
    {UrlB, UrlPage, UrlPlus}

\* The response.redirectURL values of an entry ('': no redirect).
ChainRedirects ==
    {<<>>, <<"/", "b">>, UrlPage, UrlPlus}

\* The Referer headers of the entries after the first (None: no header).
ChainReferers ==
    {None, UrlA, UrlB}

\* The contents of the last_redirect side-car ('': no side-car).
LastRedirects ==
    {<<>>, UrlA, UrlB, UrlPage, UrlPlus, UrlX}

\* A capture of n entries, the first of UrlA: the entry i redirects to
\* redirects[i] and names referers[i] as its Referer.
ChainCapture(n, urls, redirects, referers, final) ==
    [entries |->
        [i \in 1..n |->
            WithReferer([PlainEntry(IF i = 1 THEN UrlA ELSE urls[i], i, "page_1")
                            EXCEPT !.redirectURL = redirects[i]],
                        IF i = 1 THEN None ELSE referers[i])],
     pages |-> <<[id |-> "page_1", startedDateTime |-> 1]>>,
     final_redirect |-> final, cookies |-> <<>>]

InitRedirects ==
    \E n \in 1..MaxEntries :
    \E urls \in [1..n -> LaterUrls], redirects \in [1..n -> ChainRedirects],
       referers \in [1..n -> ChainReferers], final \in LastRedirects :
        /\ urls[1] = UrlB
        /\ referers[1] = None
        /\ redirects[n] = <<>>
        /\ pc = "new"
        /\ harfiles = <<ChainCapture(n, urls, redirects, referers, final)>>
        /\ hartree = None
        /\ documents = <<>>
        /\ crawledtree = None
        /\ url_call = None
        /\ harfile = None

\* HarFile.__init__: the final redirect is searched in the entries, and
\* need_tree_redirects starts false.
NewHarFile ==
    /\ pc = "new"
    /\ harfile' = [final_redirect |-> FinalRedirect(harfiles[1]),
                   need_tree_redirects |-> FALSE,
                   initial_redirects |-> None, walked |-> <<>>]
    /\ pc' = "opened"
    /\ UNCHANGED <<harfiles, hartree, documents, crawledtree, url_call>>

\* A read of HarFile.initial_redirects.
ReadInitialRedirects ==
    LET Read(r) ==
            [harfile EXCEPT
                !.need_tree_redirects = @ \/ r.need_tree_redirects,
                !.initial_redirects = r.to_return,
                !.walked = r.walked]
    IN  /\ pc = "opened"
        /\ harfile' = Read(InitialRedirects(harfiles[1]))
        /\ pc' = "read"
        /\ UNCHANGED <<harfiles, hartree, documents, crawledtree, url_call>>

NextRedirects ==
    \/ NewHarFile
    \/ ReadInitialRedirects

SpecRedirects == InitRedirects /\ [][NextRedirects]_vars

\* The walk of initial_redirects appended final_redirect.
WalkReachedFinal ==
    \E i \in 1..Len(harfile.walked) : harfile.walked[i] = harfile.final_redirect

Initiators ==
    {NoInitiator}
    \cup [type : {"other", "parser", "script", "redirect", "preload"},
          url : {<<>>, UrlA, UrlPlus},
          stack : {<<>>, <<None>>, <<UrlA>>, <<None, UrlPlus>>, <<<<>>, UrlA>>}]

\* The captures of the _initiator field: UrlA, then an entry that carries
\* the field.
InitInitiator ==
    \E url \in {UrlB, UrlX}, initiator \in Initiators :
        InitWith([entries |->
                     <<PlainEntry(UrlA, 1, "page_1"),
                       [PlainEntry(url, 2, "page_1") EXCEPT !.initiator = initiator]>>,
                  pages |-> <<[id |-> "page_1", startedDateTime |-> 1]>>,
                  final_redirect |-> <<>>, cookies |-> <<>>])

\* The _initiator field: construction and make_tree on its captures.
SpecInitiator == InitInitiator /\ [][Next]_vars

\* The URL of the first stack level that has call frames, None without one.
FirstFrameUrl(stack) ==
    LET First(i) == IF i = 0 THEN None ELSE UnquotePlus(stack[i])
    IN  First(MinOr({i \in 1..Len(stack) : stack[i] # None}, 0))

\* C23: the constructor fails on the entry that carries _initiator exactly
\* when its type is redirect or none of other, parser and script; with the
\* type other the node has no initiator_url, with parser it has one exactly
\* when url is set, and with script it has the URL of the first call frame
\* found along the stack and its parents when there is one.
C23_FailsOnlyOnUnsupportedTypes ==
    pc \in {"loaded", "raised"} =>
        LET initiator == harfiles[1].entries[2].initiator
        IN  /\ pc = "raised" <=>
                  initiator.type \notin {"absent", "other", "parser", "script"}
            /\ pc = "loaded" =>
                  /\ initiator.type \in {"absent", "other"} =>
                        hartree.nodes[2].initiator_url = None
                  /\ initiator.type = "parser" =>
                        (hartree.nodes[2].initiator_url # None
                            <=> initiator.url # <<>>)
                  /\ (initiator.type = "script"
                         /\ FirstFrameUrl(initiator.stack) \notin {None, <<>>}) =>
                        hartree.nodes[2].initiator_url
                            = FirstFrameUrl(initiator.stack)

\* ------------------------------------------------------------------------
\* rebuild_url on URLs with a port
\* ------------------------------------------------------------------------

\* The base URLs and the partial URLs with a port, or with the text of a
\* port in the path or the query.
PortBaseUrls ==
    {<<"h", "t", "t", "p", ":", "/", "/", "a", ".", "b", ":", "8", "0", "/", "x">>, <<"h", "t", "t", "p", "s", ":", "/", "/", "a", ".", "b", ":", "4", "4", "3", "/", "x">>, <<"h", "t", "t", "p", ":", "/", "/", "a", ".", "b", ":", "8", "0", "8", "0", "/", "x">>,
     <<"h", "t", "t", "p", "s", ":", "/", "/", "a", ".", "b", ":", "4", "4", "3", "0", "/", "x">>, <<"h", "t", "t", "p", ":", "/", "/", "a", ".", "b", "/", "x", ":", "8", "0", "/">>, <<"h", "t", "t", "p", "s", ":", "/", "/", "a", ".", "b", "/", "x", "?", "p", "=", ":", "4", "4", "3">>,
     <<"h", "t", "t", "p", ":", "/", "/", "a", ".", "b", "/", "x">>}

PortPartialUrls ==
    {<<"y">>, <<"/", "y">>, <<"/", "y", ":", "8", "0">>, <<"?", "q", "=", ":", "8", "0">>, <<"/", "/", "a", ".", "b", ":", "8", "0", "/", "y">>, <<"/", "/", "a", ".", "b", ":", "4", "4", "3", "/", "y">>,
     <<"h", "t", "t", "p", ":", "/", "/", "c", ".", "d", ":", "8", "0", "8", "0", "/", "y">>, <<"h", "t", "t", "p", "s", ":", "/", "/", "c", ".", "d", ":", "4", "4", "3", "/", "y", ":", "4", "4", "3">>}

\* The lists of known URLs: none, or the URLs of a capture of a.b.
PortKnownUrlLists ==
    {<<>>, <<<<"h", "t", "t", "p", ":", "/", "/", "a", ".", "b", ":", "8", "0", "/", "y">>, <<"h", "t", "t", "p", ":", "/", "/", "a", ".", "b", ":", "8", "0", "8", "0", "/", "y">>, <<"h", "t", "t", "p", "s", ":", "/", "/", "a", ".", "b", ":", "4", "4", "3", "/", "y">>>>}

InitPort ==
    \E base_url \in PortBaseUrls, partial \in PortPartialUrls,
       known_urls \in PortKnownUrlLists :
        /\ pc = "new"
        /\ harfiles = <<>>
        /\ hartree = None
        /\ documents = <<>>
        /\ crawledtree = None
        /\ harfile = None
        /\ url_call = [base_url |-> base_url, partial |-> partial,
                       known_urls |-> known_urls, final_url |-> None]

\* rebuild_url on the URLs with a port.
SpecPort == InitPort /\ [][NextUrl]_vars

\* The authority of a parsed URL without its default port: :443 at the end
\* of the authority of an https URL, :80 at the end of that of an http URL.
WithoutDefaultPort(parsed) ==
    LET Cut(port) ==
            IF EndsWith(parsed.netloc, port)
            THEN SubSeq(parsed.netloc, 1, Len(parsed.netloc) - Len(port))
            ELSE parsed.netloc
    IN  IF parsed.scheme = <<"h", "t", "t", "p", "s">> THEN Cut(<<":", "4", "4", "3">>)
        ELSE IF parsed.scheme = <<"h", "t", "t", "p">> THEN Cut(<<":", "8", "0">>)
        ELSE parsed.netloc

\* C24: a first-stage result that is in known is returned as it is; of one
\* that is not, the returned URL has the authority without its default port
\* and nothing else removed from it, the same query, and the :80 and :443 of
\* the path.
C24_OnlyDefaultPortStripped ==
    pc = "rebuilt" =>
        LET first == RebuildFirst(url_call.base_url,
                                  UnquotePlus(Strip(url_call.partial)))
        IN  IF InList(first, url_call.known_urls)
            THEN url_call.final_url = first
            ELSE /\ UrlParse(url_call.final_url).netloc
                        = WithoutDefaultPort(UrlParse(first))
                 /\ UrlParse(url_call.final_url).query = UrlParse(first).query
                 /\ \A port \in {<<":", "8", "0">>, <<":", "4", "4", "3">>} :
                        Contains(UrlParse(first).path, port)
                            => Contains(UrlParse(url_call.final_url).path, port)

\* ------------------------------------------------------------------------
\* The hostname tree of a capture with several levels
\* ------------------------------------------------------------------------

\* The most entries of a capture with several levels.
MaxLevelEntries == 5

\* The URLs the entry i of a capture with several levels can have: the
\* first three entries are on the host a, the later ones on a, b or ba.
LevelUrls(i) ==
    IF i = 1 THEN {UrlA}
    ELSE IF i = 2 THEN {UrlB}
    ELSE IF i = 3 THEN {UrlX}
    ELSE IF i = 4 THEN {UrlPage, UrlBa}
    ELSE IF i = 5 THEN {UrlS, UrlBa, UrlFNoFragment}
    ELSE {UrlPlus}

\* The captures with several levels: every entry after the first names an
\* earlier one as its Referer.
InitLevels ==
    \E n \in 1..MaxLevelEntries :
        \E urls \in {u \in [1..n -> UNION {LevelUrls(i) : i \in 1..n}] :
                        \A i \in 1..n : u[i] \in LevelUrls(i)},
           links \in {l \in [1..n -> 0..n] :
                         l[1] = 0 /\ \A i \in 2..n : l[i] # 0 /\ l[i] < i} :
            InitWith(HostCapture(n, urls, [i \in 1..n |-> <<>>], links, "plain"))

\* The hostname tree: construction, make_tree and to_json on the captures
\* with several levels.
SpecLevels == InitLevels /\ [][NextHost]_vars

\* C25: in the hostname tree make_tree built, the URL nodes of one hostname
\* whose parents are folded into one host node are folded into one host node
\* themselves, and the children of a host node have pairwise distinct names.
C25_OneHostNodePerHostname ==
    pc = "tree" =>
        /\ \A i, j \in 2..Len(hartree.nodes) :
              (/\ hartree.nodes[i].hostname = hartree.nodes[j].hostname
               /\ HostsOf(hartree, hartree.nodes[i].up)
                     = HostsOf(hartree, hartree.nodes[j].up))
              => HostsOf(hartree, i) = HostsOf(hartree, j)
        /\ \A h \in 1..Len(hartree.hosts) :
              \A c, d \in 1..Len(hartree.hosts[h].children) :
                  c # d => hartree.hosts[hartree.hosts[h].children[c]].name
                              # hartree.hosts[hartree.hosts[h].children[d]].name

\* ------------------------------------------------------------------------
\* The cookies of a capture
\* ------------------------------------------------------------------------

\* The response cookies of the first entry: at most MaxCookies of k=v with a
\* domain (None: no domain key) and of k=w without one.
FirstResponseCookies ==
    LET cookies == [name : {<<"k">>}, value : {<<"v">>}, domain : {None, <<".", "a">>, <<"b", ".", "a">>}]
                   \cup {[name |-> <<"k">>, value |-> <<"w">>, domain |-> None]}
    IN  UNION {[1..k -> cookies] : k \in 0..MaxCookies}

\* The response cookies of the second entry.
SecondResponseCookies ==
    {<<>>,
     <<[name |-> <<"k">>, value |-> <<"v">>, domain |-> None]>>,
     <<[name |-> <<"k">>, value |-> <<"v">>, domain |-> <<"a">>]>>}

\* The request cookies of the first and of the second entry.
FirstRequestCookies ==
    {<<>>, <<[name |-> <<"k">>, value |-> <<"v">>]>>}

SecondRequestCookies ==
    {<<>>,
     <<[name |-> <<"k">>, value |-> <<"v">>]>>,
     <<[name |-> <<"k">>, value |-> <<"w">>]>>,
     <<[name |-> <<"k">>, value |-> <<"v">>], [name |-> <<"k">>, value |-> <<"w">>]>>,
     <<[name |-> <<"j">>, value |-> <<"x">>]>>}

\* The cookies of the cookie jar side-car.
CookieJars ==
    {<<>>,
     <<[name |-> <<"j">>, value |-> <<"x">>]>>,
     <<[name |-> <<"k">>, value |-> <<"v">>], [name |-> <<"j">>, value |-> <<"x">>],
       [name |-> <<"i">>, value |-> <<"y">>]>>}

\* A capture with cookies: UrlA, then url, which names UrlA as its Referer.
CookieCapture(url, received1, received2, sent1, sent2, jar) ==
    [entries |->
        <<[PlainEntry(UrlA, 1, "page_1") EXCEPT
              !.responseCookies = received1, !.requestCookies = sent1],
          [WithReferer(PlainEntry(url, 2, "page_1"), UrlA) EXCEPT
              !.responseCookies = received2, !.requestCookies = sent2]>>,
     pages |-> <<[id |-> "page_1", startedDateTime |-> 1]>>,
     final_redirect |-> <<>>, cookies |-> jar]

InitCookies ==
    \E url \in {UrlPlus, UrlBa},
       received1 \in FirstResponseCookies, received2 \in SecondResponseCookies,
       sent1 \in FirstRequestCookies, sent2 \in SecondRequestCookies,
       jar \in CookieJars :
        InitWith(CookieCapture(url, received1, received2, sent1, sent2, jar))

\* The cookies: construction and make_tree on the captures with cookies.
SpecCookies == InitCookies /\ [][Next]_vars

\* The received cookies of the capture, as pairs of a node and a position in
\* its cookies_received, that have the key and a domain the hostname of the
\* node n ends with.
SettersFor(t, n, key) ==
    {p \in UNION {{<<s, c>> : c \in 1..Len(t.nodes[s].cookies_received)} :
                    s \in 1..Len(t.nodes)} :
        /\ t.nodes[p[1]].cookies_received[p[2]][2] = key
        /\ EndsWith(t.nodes[n].hostname, t.nodes[p[1]].cookies_received[p[2]][1])}

\* The record of cookies_sent for a received cookie.
SetterRecord(t, p) ==
    [hostname |-> t.nodes[p[1]].hostname,
     uuid |-> t.nodes[p[1]].uuid,
     name |-> t.nodes[p[1]].name,
     third_party |-> t.nodes[p[1]].cookies_received[p[2]][3]]

\* C26: after the construction, for every node n and every key of its
\* cookies_sent, the list n.cookies_sent[key] holds one record for each
\* received cookie of the capture that has the key and a domain the
\* hostname of n ends with, and no other record; and
\* locally_created_not_sent holds the keys of locally_created that are in
\* the cookies_sent of no node.
C26_CookiesCrossAttributed ==
    pc \in {"loaded", "tree"} =>
        /\ \A n \in 1..Len(hartree.nodes) :
              \A j \in 1..Len(hartree.nodes[n].cookies_sent) :
                  LET sent == hartree.nodes[n].cookies_sent[j]
                      pairs == SettersFor(hartree, n, sent.key)
                  IN  /\ Len(sent.setters) = Cardinality(pairs)
                      /\ \A p \in pairs :
                            Cardinality({i \in 1..Len(sent.setters) :
                                            sent.setters[i] = SetterRecord(hartree, p)})
                                = Cardinality({q \in pairs :
                                                  SetterRecord(hartree, q)
                                                      = SetterRecord(hartree, p)})
        /\ Range(hartree.locally_created_not_sent)
              = {key \in Range(hartree.locally_created) :
                    \A n \in 1..Len(hartree.nodes) :
                        key \notin SentKeys(hartree.nodes[n])}

\* C26, its case: the second node sends k=v, which the first node received
\* twice, once with a domain its hostname ends with and once with one it
\* does not end with, and has the one record of the first node; a cookie of
\* the jar was never sent.
C26_Witness ==
    /\ pc = "loaded"
    /\ Len(hartree.nodes[1].cookies_received) = 2
    /\ \A c \in 1..2 : hartree.nodes[1].cookies_received[c][2] = <<"k", "=", "v">>
    /\ \E j \in 1..Len(hartree.nodes[2].cookies_sent) :
          /\ hartree.nodes[2].cookies_sent[j].key = <<"k", "=", "v">>
          /\ Len(hartree.nodes[2].cookies_sent[j].setters) = 1
          /\ hartree.nodes[2].cookies_sent[j].setters[1].uuid = hartree.nodes[1].uuid
    /\ Len(hartree.locally_created_not_sent) > 0
====
